---- MODULE Spec2Model ----
(***************************************************************************)
(* Model of the natural-language-to-SQL dashboard: the QueryProcessor      *)
(* (Modules/query_processor.py), the dashboard's Execute Query handler     *)
(* (streamlit_app.py), the dashboard sessions that share one               *)
(* QueryProcessor, and the server's /process handler                       *)
(* (Modules/mcp_server.py).                                                *)
(*                                                                         *)
(* Text is modelled character by character: a Python str is a TLA+ string, *)
(* read with Len, SubSeq and \o.  The backquote character cannot be        *)
(* written inside a TLA+ string literal, so BQ stands for it.              *)
(***************************************************************************)
EXTENDS Integers, Sequences, FiniteSets, TLC

VARIABLES
    openai_api_key,   \* QueryProcessor.openai_api_key: TRUE iff OPENAI_API_KEY is set
    schema_context,   \* QueryProcessor.schema_context
    nl_query,         \* the question handed to natural_language_to_sql
    remote,           \* what the remote completion call does if it is made
    result,           \* the (sql, method) pair returned by natural_language_to_sql
    calls,            \* the stages natural_language_to_sql went through, in order
    db_query,         \* the statement last handed to PostgresDB.execute_query
    query_history,    \* st.session_state.query_history
    current_data,     \* st.session_state.current_data
    clock,            \* the wall clock read by datetime.now(), in seconds
    raw,              \* argument of clean_sql_query
    cleaned,          \* outcome of clean_sql_query on raw
    recleaned,        \* outcome of clean_sql_query on the text it returned for raw
    valid,            \* one-element sequence holding what validate_sql returned on raw, empty before the call
    explanation,      \* argument and return value of get_query_explanation
    described,        \* argument of set_database_schema and the context before the call
    twin,             \* two resolutions of one question under two schema descriptors
    sessions,         \* the dashboard sessions that share the cached QueryProcessor
    http,             \* the request last handled by the server and its response
    pending,          \* the remote completion call a resolution is waiting for
    sidebar,          \* the history entries the sidebar showed when it was last drawn
    figure,           \* argument and return value of auto_visualize
    client,           \* the last call of an MCPClient method and what it returned
    connection,       \* PostgresDB.connection: "none", "open" or "closed"
    db_call,          \* the last operation on the PostgresDB and what it did
    db_connected      \* st.session_state.db_connected

\* the variables written outside the dashboard's handlers and the resolver
otherVars == <<explanation, described, twin, sessions, http>>

unitVars == <<recleaned, valid, otherVars>>

\* the remote call in flight, the sidebar, the visualizer, the MCP client and
\* the database handler
serviceVars ==
    <<pending, sidebar, figure, client, connection, db_call, db_connected>>

vars == <<openai_api_key, schema_context, nl_query, remote, result, calls,
          db_query, query_history, current_data, clock, raw, cleaned, unitVars,
          serviceVars>>

None == "<None>"

\* the remote call was not made
NotCalled == [kind |-> "not_called"]

\* st.session_state.current_data before any result was stored
NoData == [rows_of |-> None]

\* clean_sql_query has not returned
NotCleaned == [ok |-> FALSE, keyword |-> None]

\* ------------------------------------------------------------------------
\* Characters and strings
\* ------------------------------------------------------------------------

\* stands for the backquote character U+0060
BQ == "#"

Lowers == "abcdefghijklmnopqrstuvwxyz"

Uppers == "ABCDEFGHIJKLMNOPQRSTUVWXYZ"

\* str.isspace for the characters of the model
Whitespace == {" ", "\n", "\t"}

CharAt(s, i) == SubSeq(s, i, i)

\* str.upper and str.lower on one character
ToUpper ==
    [c \in {CharAt(Lowers, i) : i \in 1..26} |->
        CharAt(Uppers, CHOOSE i \in 1..26 : CharAt(Lowers, i) = c)]

ToLower ==
    [c \in {CharAt(Uppers, i) : i \in 1..26} |->
        CharAt(Lowers, CHOOSE i \in 1..26 : CharAt(Uppers, i) = c)]

UpperChar(c) == IF c \in DOMAIN ToUpper THEN ToUpper[c] ELSE c

LowerChar(c) == IF c \in DOMAIN ToLower THEN ToLower[c] ELSE c

Min(S) == CHOOSE x \in S : \A y \in S : x <= y

Max(S) == CHOOSE x \in S : \A y \in S : x >= y

\* piece[lo] \o ... \o piece[hi]
RECURSIVE Cat(_, _, _)
Cat(piece, lo, hi) ==
    IF lo > hi THEN ""
    ELSE IF lo = hi THEN piece[lo]
    ELSE Cat(piece, lo, (lo + hi) \div 2) \o Cat(piece, (lo + hi) \div 2 + 1, hi)

\* s.upper(), s.lower()
Upper(s) == Cat([i \in 1..Len(s) |-> UpperChar(CharAt(s, i))], 1, Len(s))

Lower(s) == Cat([i \in 1..Len(s) |-> LowerChar(CharAt(s, i))], 1, Len(s))

StartsWith(s, p) == Len(s) >= Len(p) /\ SubSeq(s, 1, Len(p)) = p

OccursAt(s, p, i) == i + Len(p) - 1 <= Len(s) /\ SubSeq(s, i, i + Len(p) - 1) = p

\* p in s
Contains(s, p) == \E i \in 1..(Len(s) - Len(p) + 1) : OccursAt(s, p, i)

\* s.count(c) for a single character c
Count(s, c) == Cardinality({i \in 1..Len(s) : CharAt(s, i) = c})

\* the positions of s that hold no whitespace
Inked(s) == {i \in 1..Len(s) : CharAt(s, i) \notin Whitespace}

\* s.strip()
Strip(s) ==
    IF Inked(s) = {} THEN "" ELSE SubSeq(s, Min(Inked(s)), Max(Inked(s)))

\* ' '.join(s.split()): every run of whitespace between two words becomes one
\* blank, whitespace at either end disappears
JoinSplit(s) ==
    Cat([i \in 1..Len(s) |->
            IF i \in Inked(s) THEN CharAt(s, i)
            ELSE IF (i - 1) \in Inked(s) /\ \E j \in Inked(s) : j > i THEN " "
            ELSE ""],
        1, Len(s))

\* faulty variant: only the first occurrence of marker is removed
ReSubFence_Once(marker, s) ==
    LET occ == {i \in 1..(Len(s) - Len(marker) + 1) : OccursAt(s, marker, i)}
    IN  IF occ = {} THEN s
        ELSE SubSeq(s, 1, Min(occ) - 1)
               \o SubSeq(s,
                         IF Min(occ) + Len(marker) <= Len(s)
                            /\ CharAt(s, Min(occ) + Len(marker)) = "\n"
                         THEN Min(occ) + Len(marker) + 1
                         ELSE Min(occ) + Len(marker),
                         Len(s))

\* re.sub(marker + r'\n?', '', s): every leftmost non-overlapping occurrence of
\* marker, with the newline that follows it if there is one, is removed
RECURSIVE ReSubFence(_, _)
ReSubFence(marker, s) ==
    LET occ == {i \in 1..(Len(s) - Len(marker) + 1) : OccursAt(s, marker, i)}
    IN  IF occ = {} THEN s
        ELSE CHOOSE out \in
               { SubSeq(s, 1, i - 1)
                   \o ReSubFence(marker,
                        SubSeq(s,
                               IF i + Len(marker) <= Len(s)
                                  /\ CharAt(s, i + Len(marker)) = "\n"
                               THEN i + Len(marker) + 1
                               ELSE i + Len(marker),
                               Len(s)))
                 : i \in {Min(occ)} } : TRUE

\* ------------------------------------------------------------------------
\* QueryProcessor.clean_sql_query
\* ------------------------------------------------------------------------

dangerous_keywords ==
    <<"DROP", "DELETE", "INSERT", "UPDATE", "ALTER", "CREATE", "TRUNCATE">>

\* the text after the two re.sub calls and the whitespace join (lines 48-52)
CleanText(sql_query) ==
    JoinSplit(ReSubFence(BQ \o BQ \o BQ,
                         ReSubFence(BQ \o BQ \o BQ \o "sql", sql_query)))

\* faulty variant: the keyword test without the exemption of SELECT statements
FirstDangerous_NoExemption(sql_upper, k) ==
    LET hits == {j \in k..Len(dangerous_keywords) :
                    Contains(sql_upper, dangerous_keywords[j])}
    IN  IF hits = {} THEN 0 ELSE Min(hits)

\* the loop of lines 60-62: the first keyword, from index k on, that raises
RECURSIVE FirstDangerous(_, _)
FirstDangerous(sql_upper, k) ==
    IF k > Len(dangerous_keywords) THEN 0
    ELSE IF Contains(sql_upper, dangerous_keywords[k])
            /\ ~StartsWith(sql_upper, "SELECT")
         THEN k
         ELSE FirstDangerous(sql_upper, k + 1)

\* faulty variant: the keywords are looked for in the text as it is, not upper-cased
clean_sql_query_CaseSensitive(sql_query) ==
    LET text == CleanText(sql_query)
        k    == FirstDangerous(text, 1)
    IN  IF k # 0
        THEN [ok |-> FALSE, keyword |-> dangerous_keywords[k]]
        ELSE [ok |-> TRUE, sql |-> Strip(text)]

\* [ok |-> TRUE, sql |-> returned text] or [ok |-> FALSE, keyword |-> ...] when
\* ValueError("Potentially dangerous SQL operation detected: ...") is raised
clean_sql_query(sql_query) ==
    LET text      == CleanText(sql_query)
        sql_upper == Upper(text)
        k         == FirstDangerous(sql_upper, 1)
    IN  IF k # 0
        THEN [ok |-> FALSE, keyword |-> dangerous_keywords[k]]
        ELSE [ok |-> TRUE, sql |-> Strip(text)]

\* ------------------------------------------------------------------------
\* QueryProcessor.validate_sql
\* ------------------------------------------------------------------------

\* faulty variant: the parentheses are not counted
validate_sql_NoParenCheck(sql_query) ==
    LET c == clean_sql_query(sql_query)
    IN  IF ~c.ok THEN FALSE
        ELSE StartsWith(Upper(c.sql), "SELECT")

\* TRUE or FALSE; the except branch of line 184 is the case ~c.ok
validate_sql(sql_query) ==
    LET c == clean_sql_query(sql_query)
    IN  IF ~c.ok THEN FALSE
        ELSE IF ~StartsWith(Upper(c.sql), "SELECT") THEN FALSE
        ELSE IF Count(c.sql, "(") # Count(c.sql, ")") THEN FALSE
        ELSE TRUE

\* ------------------------------------------------------------------------
\* Regular expressions of the two tables
\* ------------------------------------------------------------------------

\* Every pattern of the tables has the shape (?i).*A1.*A2 ... .*An(.*)? with
\* each Ai a literal or an alternation of literals; it is written as the
\* sequence <<A1, ..., An>> of sets of lower-case literals.  "." matches every
\* character but the newline, so a match lies within one line.

\* the text of s before its first newline
FirstLine(s) ==
    LET nl == {i \in 1..Len(s) : CharAt(s, i) = "\n"}
    IN  IF nl = {} THEN s ELSE SubSeq(s, 1, Min(nl) - 1)

\* s.split('\n') as a set of lines
RECURSIVE LinesOf(_)
LinesOf(s) ==
    LET nl == {i \in 1..Len(s) : CharAt(s, i) = "\n"}
    IN  IF nl = {} THEN {s}
        ELSE {SubSeq(s, 1, Min(nl) - 1)} \cup LinesOf(SubSeq(s, Min(nl) + 1, Len(s)))

\* the literals items[k], items[k+1], ... occur in this order, without
\* overlapping, in line at or after position pos
RECURSIVE ItemsFrom(_, _, _, _)
ItemsFrom(items, k, line, pos) ==
    \/ k > Len(items)
    \/ \E lit \in items[k] :
          \E i \in pos..(Len(line) - Len(lit) + 1) :
             /\ OccursAt(line, lit, i)
             /\ ItemsFrom(items, k + 1, line, i + Len(lit))

\* re.match(pattern, s) is not None: the match starts at the first character
ReMatch(items, s) ==
    \E line \in {Lower(FirstLine(s))} : ItemsFrom(items, 1, line, 1)

\* re.search(pattern, s) is not None: the match starts anywhere
ReSearch(items, s) ==
    \E line \in LinesOf(Lower(s)) : ItemsFrom(items, 1, line, 1)

\* ------------------------------------------------------------------------
\* The fixed statements
\* ------------------------------------------------------------------------

SqlAllSales == "SELECT * FROM sales ORDER BY sale_date DESC"

SqlSalesByCategory == "SELECT category, SUM(price * quantity) as total_sales FROM sales GROUP BY category ORDER BY total_sales DESC"

SqlTotalSales == "SELECT SUM(price * quantity) as total_sales FROM sales"

SqlAllCustomers == "SELECT * FROM customers ORDER BY registration_date DESC"

SqlAverageAge == "SELECT AVG(age) as average_age FROM customers"

SqlSalesByRegion == "SELECT region, SUM(price * quantity) as total_sales FROM sales GROUP BY region ORDER BY total_sales DESC"

SqlTopProducts == "SELECT product_name, SUM(quantity) as total_sold FROM sales GROUP BY product_name ORDER BY total_sold DESC LIMIT 10"

SqlRecentSales == "SELECT * FROM sales ORDER BY sale_date DESC LIMIT 10"

SqlRevenue == "SELECT SUM(price * quantity) as total_revenue FROM sales"

SqlBestProducts == "SELECT product_name, SUM(quantity) as total_sold, SUM(price * quantity) as revenue FROM sales GROUP BY product_name ORDER BY revenue DESC LIMIT 10"

SqlCustomersByCity == "SELECT city, COUNT(*) as customer_count FROM customers GROUP BY city ORDER BY customer_count DESC"

SqlCountSales == "SELECT COUNT(*) as total_sales_count FROM sales"

SqlCountCustomers == "SELECT COUNT(*) as total_customers FROM customers"

SqlDefault == "SELECT * FROM sales LIMIT 10"

SqlError_NotSelect == "ERROR"

SqlError == "SELECT 1 as error"

\* f"Error: {str(e)}" for the TypeError that re.match raises on a non-str
ErrorMethod == "Error: expected string or bytes-like object"

\* the dict fallback_patterns of natural_language_to_sql, in insertion order
fallback_patterns == <<
    [re |-> <<{"all sales"}>>,          sql |-> SqlAllSales],
    [re |-> <<{"sales by category"}>>,  sql |-> SqlSalesByCategory],
    [re |-> <<{"total sales"}>>,        sql |-> SqlTotalSales],
    [re |-> <<{"customers"}>>,          sql |-> SqlAllCustomers],
    [re |-> <<{"average age"}>>,        sql |-> SqlAverageAge],
    [re |-> <<{"sales by region"}>>,    sql |-> SqlSalesByRegion],
    [re |-> <<{"top"}, {"products"}>>,  sql |-> SqlTopProducts],
    [re |-> <<{"recent sales"}>>,       sql |-> SqlRecentSales],
    [re |-> <<{"revenue"}>>,            sql |-> SqlRevenue] >>

\* the list patterns of _rule_based_to_sql
patterns == <<
    [re |-> <<{"all", "show", "display"}, {"sales"}>>,     sql |-> SqlAllSales],
    [re |-> <<{"total"}, {"sales"}, {"category"}>>,        sql |-> SqlSalesByCategory],
    [re |-> <<{"sales"}, {"region"}>>,                     sql |-> SqlSalesByRegion],
    [re |-> <<{"total"}, {"sales"}>>,                      sql |-> SqlTotalSales],
    [re |-> <<{"revenue"}>>,                               sql |-> SqlRevenue],
    [re |-> <<{"top", "best"}, {"products"}>>,             sql |-> SqlBestProducts],
    [re |-> <<{"recent"}, {"sales"}>>,                     sql |-> SqlRecentSales],
    [re |-> <<{"all", "show", "display"}, {"customers"}>>, sql |-> SqlAllCustomers],
    [re |-> <<{"average"}, {"age"}>>,                      sql |-> SqlAverageAge],
    [re |-> <<{"customers"}, {"city"}>>,                   sql |-> SqlCustomersByCity],
    [re |-> <<{"count"}, {"sales"}>>,                      sql |-> SqlCountSales],
    [re |-> <<{"count"}, {"customers"}>>,                  sql |-> SqlCountCustomers] >>

\* ------------------------------------------------------------------------
\* QueryProcessor: the three stages
\* ------------------------------------------------------------------------

\* faulty variant: the last matching entry wins
PatternLoop_Last(q, k) ==
    LET hits == {j \in k..Len(fallback_patterns) : ReMatch(fallback_patterns[j].re, q)}
    IN  IF hits = {} THEN 0 ELSE Max(hits)

\* the loop of lines 83-85: index of the entry that returns, from k on; 0 if none
RECURSIVE PatternLoop(_, _)
PatternLoop(q, k) ==
    IF k > Len(fallback_patterns) THEN 0
    ELSE IF ReMatch(fallback_patterns[k].re, q) THEN k
    ELSE PatternLoop(q, k + 1)

\* faulty variant: the last matching entry wins
RuleLoop_Last(q, k) ==
    LET hits == {j \in k..Len(patterns) : ReSearch(patterns[j].re, q)}
    IN  IF hits = {} THEN 0 ELSE Max(hits)

\* the loop of lines 163-165
RECURSIVE RuleLoop(_, _)
RuleLoop(q, k) ==
    IF k > Len(patterns) THEN 0
    ELSE IF ReSearch(patterns[k].re, q) THEN k
    ELSE RuleLoop(q, k + 1)

\* faulty variant: without a matching rule the first rule's statement is returned
rule_based_to_sql_NoDefault(q) ==
    LET k == RuleLoop(q, 1)
    IN  [sql |-> patterns[IF k # 0 THEN k ELSE 1].sql,
         method |-> "Rule-based matching", calls |-> <<"rule_based">>]

rule_based_to_sql(q) ==
    LET k == RuleLoop(q, 1)
    IN  IF k # 0
        THEN [sql |-> patterns[k].sql, method |-> "Rule-based matching",
              calls |-> <<"rule_based">>]
        ELSE [sql |-> SqlDefault, method |-> "Default fallback",
              calls |-> <<"rule_based">>]

\* faulty variant: the text of the completion is returned without clean_sql_query
openai_to_sql_Unclean(q, rem) ==
    IF rem.kind # "text"
    THEN [rule_based_to_sql(q) EXCEPT !.calls = <<"openai">> \o @]
    ELSE [sql |-> Strip(rem.content), method |-> "OpenAI GPT", calls |-> <<"openai">>]

\* faulty variant: a failed or rejected remote call ends in the error pair
openai_to_sql_NoFallback(q, rem) ==
    LET c == clean_sql_query(Strip(IF rem.kind = "text" THEN rem.content ELSE ""))
    IN  IF rem.kind = "text" /\ c.ok
        THEN [sql |-> c.sql, method |-> "OpenAI GPT", calls |-> <<"openai">>]
        ELSE [sql |-> SqlError, method |-> "Error: remote call failed",
              calls |-> <<"openai">>]

\* faulty variant: a remote call that raised is made a second time
openai_to_sql_Retry(q, rem) ==
    LET fallback == rule_based_to_sql(q)
        c        == clean_sql_query(Strip(IF rem.kind = "text" THEN rem.content ELSE ""))
    IN  IF rem.kind # "text"
        THEN [fallback EXCEPT !.calls = <<"openai", "openai">> \o @]
        ELSE IF c.ok
             THEN [sql |-> c.sql, method |-> "OpenAI GPT", calls |-> <<"openai">>]
             ELSE [fallback EXCEPT !.calls = <<"openai">> \o @]

\* rem is what openai.ChatCompletion.create does: it returns a completion
\* whose message content is rem.content (kind "text") or it raises
openai_to_sql(q, rem) ==
    LET fallback == rule_based_to_sql(q)
        failed   == [fallback EXCEPT !.calls = <<"openai">> \o @]
    IN  IF rem.kind # "text" THEN failed
        ELSE LET c == clean_sql_query(Strip(rem.content))
             IN  IF c.ok
                 THEN [sql |-> c.sql, method |-> "OpenAI GPT", calls |-> <<"openai">>]
                 ELSE failed

\* faulty variant: with a credential the remote call comes before the pattern table
natural_language_to_sql_RemoteFirst(q, key, rem) ==
    IF q = None
    THEN [sql |-> SqlError, method |-> ErrorMethod, calls |-> <<"pattern">>]
    ELSE IF key THEN openai_to_sql(q, rem)
    ELSE LET k == PatternLoop(q, 1)
         IN  IF k # 0
             THEN [sql |-> fallback_patterns[k].sql, method |-> "Pattern matching",
                   calls |-> <<"pattern">>]
             ELSE [rule_based_to_sql(q) EXCEPT !.calls = <<"pattern">> \o @]

\* faulty variant: the remote call is made whether or not a credential is configured
natural_language_to_sql_NoKeyTest(q, key, rem) ==
    IF q = None
    THEN [sql |-> SqlError, method |-> ErrorMethod, calls |-> <<"pattern">>]
    ELSE LET k == PatternLoop(q, 1)
         IN  IF k # 0
             THEN [sql |-> fallback_patterns[k].sql, method |-> "Pattern matching",
                   calls |-> <<"pattern">>]
             ELSE [openai_to_sql(q, rem) EXCEPT !.calls = <<"pattern">> \o @]

\* faulty variant: without the try/except of lines 68 and 93-95; the exception
\* of re.match leaves the call and no pair is returned
natural_language_to_sql_NoExcept(q, key, rem) ==
    IF q = None
    THEN [sql |-> None, method |-> None, calls |-> <<"pattern">>]
    ELSE LET k == PatternLoop(q, 1)
         IN  IF k # 0
             THEN [sql |-> fallback_patterns[k].sql, method |-> "Pattern matching",
                   calls |-> <<"pattern">>]
             ELSE LET r == IF key THEN openai_to_sql(q, rem) ELSE rule_based_to_sql(q)
                  IN  [r EXCEPT !.calls = <<"pattern">> \o @]

\* q = None stands for an argument that is not a str, on which re.match raises
natural_language_to_sql(q, key, rem) ==
    IF q = None
    THEN [sql |-> SqlError, method |-> ErrorMethod, calls |-> <<"pattern">>]
    ELSE LET k == PatternLoop(q, 1)
         IN  IF k # 0
             THEN [sql |-> fallback_patterns[k].sql, method |-> "Pattern matching",
                   calls |-> <<"pattern">>]
             ELSE LET r == IF key THEN openai_to_sql(q, rem) ELSE rule_based_to_sql(q)
                  IN  [r EXCEPT !.calls = <<"pattern">> \o @]

\* sep.join(parts)
RECURSIVE Join(_, _)
Join(sep, parts) ==
    IF parts = <<>> THEN ""
    ELSE IF Len(parts) = 1 THEN parts[1]
    ELSE parts[1] \o sep \o Join(sep, Tail(parts))

\* ------------------------------------------------------------------------
\* QueryProcessor.get_query_explanation
\* ------------------------------------------------------------------------

\* the dict explanations, in the order of its declaration
explanations ==
    << [pattern |-> "SELECT * FROM sales",   text |-> "Retrieving all sales records"],
       [pattern |-> "SUM(price * quantity)", text |-> "Calculating total revenue (price × quantity)"],
       [pattern |-> "GROUP BY",              text |-> "Grouping results by specified column(s)"],
       [pattern |-> "ORDER BY",              text |-> "Sorting results by specified column(s)"],
       [pattern |-> "COUNT(*)",              text |-> "Counting total number of records"],
       [pattern |-> "AVG(",                  text |-> "Calculating average value"],
       [pattern |-> "LIMIT",                 text |-> "Limiting number of results returned"] >>

\* explanation_parts after the loop of lines 204-206 has gone from entry k on
RECURSIVE ExplanationParts(_, _)
ExplanationParts(sql_upper, k) ==
    IF k > Len(explanations) THEN <<>>
    ELSE (IF Contains(sql_upper, Upper(explanations[k].pattern))
          THEN <<explanations[k].text>> ELSE <<>>)
           \o ExplanationParts(sql_upper, k + 1)

\* faulty variant: the patterns are looked for in the statement as it is written
get_query_explanation_CaseSensitive(sql_query) ==
    IF sql_query = None THEN "Query explanation not available"
    ELSE LET explanation_parts == ExplanationParts(sql_query, 1)
         IN  IF explanation_parts # <<>>
             THEN "This query is: " \o Join(", ", explanation_parts)
             ELSE "This query retrieves data from the database"

\* sql_query = None stands for an argument that is not a str, on which
\* .upper() raises inside the try
get_query_explanation(sql_query) ==
    IF sql_query = None THEN "Query explanation not available"
    ELSE LET explanation_parts == ExplanationParts(Upper(sql_query), 1)
         IN  IF explanation_parts # <<>>
             THEN "This query is: " \o Join(", ", explanation_parts)
             ELSE "This query retrieves data from the database"

\* ------------------------------------------------------------------------
\* QueryProcessor.set_database_schema
\* ------------------------------------------------------------------------

\* faulty variant: NOT NULL is written for the nullable columns
col_def_Inverted(col) ==
    col.column_name \o " (" \o col.data_type \o ")"
        \o (IF col.is_nullable = "NO" THEN "" ELSE " NOT NULL")

\* one entry of column_definitions (lines 34-37)
col_def(col) ==
    col.column_name \o " (" \o col.data_type \o ")"
        \o (IF col.is_nullable = "NO" THEN " NOT NULL" ELSE "")

\* the value assigned to self.schema_context; table_info is the mapping as
\* the sequence of its (table_name, columns) items in insertion order
set_database_schema(table_info) ==
    Join("\n\n",
         [t \in 1..Len(table_info) |->
            "Table: " \o table_info[t].table_name \o "\nColumns: "
              \o Join(", ", [c \in 1..Len(table_info[t].columns) |->
                                col_def(table_info[t].columns[c])])])

\* ------------------------------------------------------------------------
\* The prompt of the remote call (QueryProcessor._openai_to_sql)
\* ------------------------------------------------------------------------

PromptHead ==
    "You are an expert SQL query generator. Convert natural language questions to PostgreSQL queries.\n\nDatabase Schema:\n"

PromptTail ==
    "\n\nRules:\n1. Only generate SELECT queries (no INSERT, UPDATE, DELETE, DROP)\n"
      \o "2. Use proper PostgreSQL syntax\n3. Include appropriate JOINs when needed\n"
      \o "4. Use meaningful aliases\n5. Add ORDER BY clauses when logical\n"
      \o "6. Return only the SQL query, no explanation\n"
      \o "7. Ensure queries are safe and don't modify data\n\nExamples:\n"
      \o "- \"Show all sales\" → " \o SqlAllSales \o "\n"
      \o "- \"Total sales by category\" → " \o SqlSalesByCategory \o "\n"

\* the f-string of lines 100-117, which embeds self.schema_context
system_prompt(context) == PromptHead \o context \o PromptTail

\* the keyword arguments of openai.ChatCompletion.create (lines 119-127)
create_kwargs(context, q) ==
    [model |-> "gpt-3.5-turbo",
     messages |-> << [role |-> "system", content |-> system_prompt(context)],
                     [role |-> "user", content |-> q] >>,
     max_tokens |-> 200,
     temperature |-> "0.1"]

\* the remote call is not made, so no prompt is built
NoPrompt == "<no prompt>"

\* faulty variant: without a schema context the resolver gives up at once
resolve_with_context_NeedsSchema(context, q, key, rem) ==
    IF context = ""
    THEN [sql |-> SqlDefault, method |-> "Default fallback", calls |-> <<"rule_based">>,
          prompt |-> NoPrompt]
    ELSE LET r == natural_language_to_sql(q, key, rem)
         IN  [sql |-> r.sql, method |-> r.method, calls |-> r.calls,
              prompt |-> IF \E i \in 1..Len(r.calls) : r.calls[i] = "openai"
                         THEN system_prompt(context) ELSE NoPrompt]

\* natural_language_to_sql on a QueryProcessor whose schema_context is
\* context: the context is read on line 103 only, when the prompt of the
\* remote call is built
resolve_with_context(context, q, key, rem) ==
    LET r == natural_language_to_sql(q, key, rem)
    IN  [sql |-> r.sql, method |-> r.method, calls |-> r.calls,
         prompt |-> IF \E i \in 1..Len(r.calls) : r.calls[i] = "openai"
                    THEN system_prompt(context) ELSE NoPrompt]

\* ------------------------------------------------------------------------
\* Inputs
\* ------------------------------------------------------------------------

MaxWords == 3

MaxRawTokens == 3

MaxHistory == 1

MaxClock == 1

MaxExplainTokens == 3

MaxColumns == 1

MaxTables == 2

QuestionWords ==
    {"total", "sales", "by category", "all", "Show", "\n"}

\* the fragments of a sequence, separated by one blank
RECURSIVE Phrases(_, _)
Phrases(words, n) ==
    IF n = 0 THEN {""}
    ELSE LET shorter == Phrases(words, n - 1)
         IN  shorter \cup words
               \cup {p \o " " \o w : p \in shorter \ {""}, w \in words}

SampleQuestions ==
    {"Show me all sales data", "What are the total sales by category?",
     "SALES BY REGION", "top selling products", "best products", "hello",
     "display\nsales", "customers by city", "count customers", "count sales",
     "Show count sales",
     "average customer age", "recent sales", "monthly revenue", "   "}

\* None: an argument that is not a str
Questions == Phrases(QuestionWords, MaxWords) \cup SampleQuestions \cup {None}

RawTokens ==
    {"SELECT", "select 1", "DROP", "(", ")", " ", "\n",
     BQ \o BQ \o BQ, BQ \o BQ \o BQ \o "sql", BQ}

RECURSIVE Concats(_, _)
Concats(tokens, n) ==
    IF n = 0 THEN {""}
    ELSE LET shorter == Concats(tokens, n - 1)
         IN  shorter \cup {p \o t : p \in shorter, t \in tokens}

SampleTexts ==
    {"SELECT COUNT(*) FROM sales",
     BQ \o BQ \o BQ \o "sql\nSELECT * FROM customers\n" \o BQ \o BQ \o BQ,
     "DROP TABLE sales",
     "SELECT 1; DROP TABLE sales",
     "SELECT * FROM t -- DROP",
     "SELECT updated_at FROM t",
     "Sorry, I cannot answer that",
     "SELECT * FROM t WHERE (a = 1",
     "SELECT * FROM t WHERE (a = 1)",
     "delete from sales"}

\* every statement the resolver holds as a literal (lines 70-80, 95, 143-161,
\* 168)
FixedSqls ==
    {fallback_patterns[i].sql : i \in DOMAIN fallback_patterns}
      \cup {patterns[i].sql : i \in DOMAIN patterns}
      \cup {SqlDefault, SqlError}

RawTexts == Concats(RawTokens, MaxRawTokens) \cup SampleTexts \cup FixedSqls

\* what openai.ChatCompletion.create can do: return a completion with some
\* text, or raise (timeout, network error, error status, malformed payload)
RemoteFailures ==
    {[kind |-> "timeout"], [kind |-> "network_error"],
     [kind |-> "error_status"], [kind |-> "malformed_payload"]}

RemoteTexts ==
    {"SELECT COUNT(*) FROM sales",
     BQ \o BQ \o BQ \o "sql\nSELECT * FROM customers\n" \o BQ \o BQ \o BQ,
     "DROP TABLE sales",
     "SELECT 1; DROP TABLE sales",
     "Sorry, I cannot answer that",
     "SELECT * FROM t WHERE (a = 1"}

Remotes == RemoteFailures \cup {[kind |-> "text", content |-> t] : t \in RemoteTexts}

NoResult == [sql |-> None, method |-> None]

\* the server has handled no request
NoRequest == [status |-> 0]

\* the browser sessions of the dashboard
Sessions == {"s1", "s2"}

\* a session whose script is not inside the Execute Query handler
IdleSession == [pc |-> "idle", question |-> None, own_context |-> None, prompt |-> None]

\* no remote call is in flight
NoPending == [awaiting |-> FALSE]

\* auto_visualize has not been called
NoFigure == [drawn |-> FALSE]

\* no MCPClient method has been called
NoClientCall == [method |-> None]

\* no operation on the PostgresDB has been called
NoDbCall == [op |-> None]

\* get_query_explanation has not been called
NoExplanation == [of |-> None, text |-> None]

ExplainTokens ==
    {"SELECT * FROM sales", "select sum(price * quantity)", " GROUP BY a",
     " order by b", "COUNT(*)", " LIMIT 5"}

\* the statements handed to get_query_explanation; None is an argument that
\* is not a str
ExplainTexts ==
    Concats(ExplainTokens, MaxExplainTokens)
      \cup {"SELECT COUNT(*) FROM sales", "select avg(age) from customers",
            "SELECT name FROM customers", SqlSalesByCategory, SqlAverageAge,
            SqlDefault, None}

\* set_database_schema has not been called
NotDescribed == [called |-> FALSE]

SalesTable ==
    [table_name |-> "sales",
     columns |-> << [column_name |-> "id", data_type |-> "integer", is_nullable |-> "NO"],
                    [column_name |-> "region", data_type |-> "text", is_nullable |-> "YES"] >>]

\* what db.get_table_info() can return
TableInfos == { <<>>, <<SalesTable>> }

TableNames == {"sales", "customers"}

Columns ==
    {[column_name |-> "id", data_type |-> "integer", is_nullable |-> "NO"],
     [column_name |-> "region", data_type |-> "text", is_nullable |-> "YES"]}

\* the sequences of at most n elements of S
RECURSIVE SeqsUpTo(_, _)
SeqsUpTo(S, n) ==
    IF n = 0 THEN {<<>>}
    ELSE LET shorter == SeqsUpTo(S, n - 1)
         IN  shorter \cup {Append(q, x) : q \in shorter, x \in S}

\* the mappings handed to set_database_schema: at most MaxTables tables of at
\* most MaxColumns columns each, no table name twice (the names are dict keys)
Descriptors ==
    {d \in SeqsUpTo([table_name : TableNames,
                     columns : SeqsUpTo(Columns, MaxColumns)], MaxTables) :
        \A i, j \in 1..Len(d) : i # j => d[i].table_name # d[j].table_name}
      \cup TableInfos
      \cup { <<SalesTable, [table_name |-> "customers", columns |-> SalesTable.columns]>> }

\* ------------------------------------------------------------------------
\* State machine
\* ------------------------------------------------------------------------

Init ==
    /\ openai_api_key \in BOOLEAN
    /\ schema_context = ""
    /\ nl_query = None
    /\ remote = NotCalled
    /\ result = NoResult
    /\ calls = <<>>
    /\ db_query = None
    /\ query_history = <<>>
    /\ current_data = NoData
    /\ clock = 0
    /\ raw = None
    /\ cleaned = NotCleaned
    /\ recleaned = NotCleaned
    /\ valid = <<>>
    /\ explanation = NoExplanation
    /\ described = NotDescribed
    /\ twin = <<>>
    /\ sessions = [s \in Sessions |-> IdleSession]
    /\ http = NoRequest
    /\ pending = NoPending
    /\ sidebar = <<>>
    /\ figure = NoFigure
    /\ client = NoClientCall
    /\ connection = "none"
    /\ db_call = NoDbCall
    /\ db_connected = FALSE

\* one call of clean_sql_query
Sanitize ==
    /\ raw = None
    /\ \E r \in RawTexts :
         /\ raw' = r
         /\ cleaned' = clean_sql_query(r)
    /\ UNCHANGED <<openai_api_key, schema_context, nl_query, remote, result,
                   calls, db_query, query_history, current_data, clock,
                   unitVars,
                   serviceVars>>

\* clean_sql_query called on the text it has returned
Resanitize ==
    /\ cleaned.ok
    /\ recleaned = NotCleaned
    /\ recleaned' = clean_sql_query(cleaned.sql)
    /\ UNCHANGED <<openai_api_key, schema_context, nl_query, remote, result,
                   calls, db_query, query_history, current_data, clock,
                   raw, cleaned, valid, otherVars,
                   serviceVars>>

\* one call of validate_sql on the same text
Validate ==
    /\ raw # None
    /\ valid = <<>>
    /\ valid' = <<validate_sql(raw)>>
    /\ UNCHANGED <<openai_api_key, schema_context, nl_query, remote, result,
                   calls, db_query, query_history, current_data, clock,
                   raw, cleaned, recleaned, otherVars,
                   serviceVars>>

\* one call of get_query_explanation
Explain ==
    /\ explanation = NoExplanation
    /\ \E sql \in ExplainTexts :
         explanation' = [of |-> sql, text |-> get_query_explanation(sql)]
    /\ UNCHANGED <<openai_api_key, schema_context, nl_query, remote, result,
                   calls, db_query, query_history, current_data, clock,
                   raw, cleaned, recleaned, valid, described, twin, sessions,
                   http,
                   serviceVars>>

\* one call of set_database_schema (line 42 assigns self.schema_context)
SetSchema ==
    /\ \E table_info \in Descriptors :
         /\ schema_context' = set_database_schema(table_info)
         /\ described' = [table_info |-> table_info, before |-> schema_context]
    /\ UNCHANGED <<openai_api_key, nl_query, remote, result, calls, db_query,
                   query_history, current_data, clock, raw, cleaned, recleaned,
                   valid, explanation, twin, sessions, http,
                   serviceVars>>

TwinRemotes ==
    {[kind |-> "timeout"],
     [kind |-> "text", content |-> "SELECT COUNT(*) FROM sales"],
     [kind |-> "text", content |-> "DROP TABLE sales"]}

TwinDescriptors ==
    TableInfos \cup
      { <<SalesTable, [table_name |-> "customers", columns |-> SalesTable.columns]>> }

\* the same question resolved twice, each time after set_database_schema
\* with a descriptor of its own (streamlit_app.py lines 226-230, mcp_server.py
\* lines 59-62); rem1 and rem2 are what the remote call does in either run
ResolveTwice ==
    /\ twin = <<>>
    /\ \E q \in SampleQuestions, d1 \in TwinDescriptors, d2 \in TwinDescriptors,
          rem1 \in TwinRemotes, rem2 \in TwinRemotes :
         \E r1 \in {resolve_with_context(set_database_schema(d1), q, openai_api_key, rem1)},
            r2 \in {resolve_with_context(set_database_schema(d2), q, openai_api_key, rem2)} :
             /\ twin' = << [table_info |-> d1, run |-> r1], [table_info |-> d2, run |-> r2] >>
             /\ schema_context' = set_database_schema(d2)
             /\ nl_query' = q
             /\ result' = [sql |-> r2.sql, method |-> r2.method]
             /\ calls' = r2.calls
             /\ remote' = IF r2.prompt # NoPrompt THEN rem2 ELSE NotCalled
    /\ UNCHANGED <<openai_api_key, db_query, query_history, current_data, clock,
                   raw, cleaned, recleaned, valid, explanation, described,
                   sessions, http,
                   serviceVars>>

\* one call of natural_language_to_sql
Resolve ==
    /\ calls = <<>>
    /\ \E q \in Questions, rem \in Remotes :
         \E r \in {natural_language_to_sql(q, openai_api_key, rem)} :
             /\ nl_query' = q
             /\ result' = [sql |-> r.sql, method |-> r.method]
             /\ calls' = r.calls
             /\ remote' = IF \E i \in 1..Len(r.calls) : r.calls[i] = "openai"
                          THEN rem ELSE NotCalled
    /\ UNCHANGED <<openai_api_key, schema_context, db_query, query_history,
                   current_data, clock, raw, cleaned, unitVars,
                   serviceVars>>

\* ------------------------------------------------------------------------
\* The visualizer (Modules/visualization.py, DataVisualizer.auto_visualize)
\* ------------------------------------------------------------------------

MaxVizColumns == 3

MaxVizRows == 2

\* a column of the result by what auto_visualize looks at: its dtype, whether
\* its name contains "date", and whether pd.to_datetime accepts its values.
\* dtype "other" stands for the dtypes none of the three selections of lines
\* 35-37 includes (bool, ...)
VizColumns ==
    {[dtype |-> "number",     date_name |-> FALSE, parses |-> FALSE],
     [dtype |-> "category",   date_name |-> FALSE, parses |-> FALSE],
     [dtype |-> "datetime64", date_name |-> TRUE,  parses |-> TRUE],
     [dtype |-> "other",      date_name |-> FALSE, parses |-> FALSE],
     [dtype |-> "object",     date_name |-> FALSE, parses |-> TRUE],
     [dtype |-> "object",     date_name |-> TRUE,  parses |-> TRUE],
     [dtype |-> "object",     date_name |-> TRUE,  parses |-> FALSE]}

\* the results handed to auto_visualize: None, or a DataFrame with so many
\* rows and these columns; duplicate tells that two columns carry one label,
\* which makes df[col] a DataFrame and df[col].dtype raise
VizFrames ==
    {[missing |-> TRUE, rows |-> 0, columns |-> <<>>, duplicate |-> FALSE]}
      \cup
    {[missing |-> FALSE, rows |-> n, columns |-> cols, duplicate |-> d] :
        n \in 0..MaxVizRows, cols \in SeqsUpTo(VizColumns, MaxVizColumns),
        d \in BOOLEAN}

\* the question passed along; None makes query.lower() raise
VizQueries == {"", "total sales", None}

\* df.select_dtypes(include=...).columns.tolist(): the positions of the
\* columns that are of the wanted kinds, in column order
select_columns(columns, wanted) ==
    SelectSeq([i \in 1..Len(columns) |-> i], LAMBDA i : columns[i] \in wanted)

\* the object columns the loop of lines 40-48 converts to datetime
ConvertedColumns ==
    {col \in VizColumns : col.dtype = "object" /\ col.date_name /\ col.parses}

\* df.empty
IsEmptyFrame(df) == df.rows = 0 \/ Len(df.columns) = 0

\* lines 35-48: the three column lists after the conversion loop
column_lists(df) ==
    [num_cols  |-> select_columns(df.columns,
                       {col \in VizColumns : col.dtype = "number"}),
     cat_cols  |-> select_columns(df.columns,
                       {col \in VizColumns :
                           col.dtype \in {"object", "category"}}
                         \ ConvertedColumns),
     date_cols |-> select_columns(df.columns,
                       {col \in VizColumns : col.dtype = "datetime64"})
                   \o select_columns(df.columns, ConvertedColumns)]

pick_LineBeforeBar(num_rows, lists, query) ==
    IF num_rows = 1 /\ Len(lists.num_cols) = 1
    THEN [kind |-> "metric_card", raised |-> FALSE]
    ELSE IF Len(lists.date_cols) >= 1 /\ Len(lists.num_cols) >= 1
    THEN [kind |-> "line_chart", raised |-> FALSE]
    ELSE IF Len(lists.cat_cols) >= 1 /\ Len(lists.num_cols) >= 1
    THEN IF query = None
         THEN [kind |-> None, raised |-> TRUE]
         ELSE [kind |-> "bar_chart", raised |-> FALSE]
    ELSE IF Len(lists.num_cols) >= 2
    THEN [kind |-> "scatter_plot", raised |-> FALSE]
    ELSE [kind |-> "table_view", raised |-> FALSE]

\* lines 50-74: the decision
pick(num_rows, lists, query) ==
    IF num_rows = 1 /\ Len(lists.num_cols) = 1
    THEN [kind |-> "metric_card", raised |-> FALSE]
    ELSE IF Len(lists.cat_cols) >= 1 /\ Len(lists.num_cols) >= 1
    THEN IF query = None
         THEN [kind |-> None, raised |-> TRUE]
         ELSE [kind |-> "bar_chart", raised |-> FALSE]
    ELSE IF Len(lists.date_cols) >= 1 /\ Len(lists.num_cols) >= 1
    THEN [kind |-> "line_chart", raised |-> FALSE]
    ELSE IF Len(lists.num_cols) >= 2
    THEN [kind |-> "scatter_plot", raised |-> FALSE]
    ELSE [kind |-> "table_view", raised |-> FALSE]

\* auto_visualize (lines 28-78); renders tells whether the create_* method
\* that is called builds its figure (each returns None when it fails)
auto_visualize(df, query, renders) ==
    IF df.missing \/ IsEmptyFrame(df)
    THEN [picked |-> None, raised |-> FALSE, returned |-> None]
    ELSE LET loop_raises == df.duplicate
             p == IF loop_raises THEN [kind |-> None, raised |-> TRUE]
                  ELSE pick(df.rows, column_lists(df), query)
             kind == IF p.raised THEN "table_view" ELSE p.kind
         IN  [picked |-> kind, raised |-> p.raised,
              returned |-> IF renders THEN kind ELSE None]

\* one call of auto_visualize
Visualize ==
    /\ figure = NoFigure
    /\ \E df \in VizFrames, query \in VizQueries, renders \in BOOLEAN :
         \E v \in {auto_visualize(df, query, renders)} :
            figure' = [drawn |-> TRUE, df |-> df, query |-> query,
                       renders |-> renders, picked |-> v.picked,
                       raised |-> v.raised, returned |-> v.returned]
    /\ UNCHANGED <<openai_api_key, schema_context, nl_query, remote, result,
                   calls, db_query, query_history, current_data, clock, raw,
                   cleaned, unitVars, pending, sidebar, client, connection,
                   db_call, db_connected>>

SpecVisualize == Init /\ [][Visualize]_vars

\* ------------------------------------------------------------------------
\* The MCP client (Modules/mcp_client.py, MCPClient)
\* ------------------------------------------------------------------------

\* Python values as the client handles them
PyNone == [type |-> "None"]

PyBool(b) == [type |-> "bool", value |-> b]

PyList(items) == [type |-> "list", value |-> items]

PyStr(text) == [type |-> "str", value |-> text]

\* the key is not in the dict
Absent == [type |-> "absent"]

\* a dict by the values of the keys the client and the server use
PyDict(valid_value, suggestions_value, sql_value) ==
    [type |-> "dict", valid |-> valid_value, suggestions |-> suggestions_value,
     sql |-> sql_value]

\* the body is not JSON: response.json() raises
NotJson == [type |-> "not_json"]

\* the seconds aiohttp waits for the whole request (line 35)
total_timeout == 30

\* what a response body can decode to
ResponseBodies ==
    {PyDict(Absent, Absent, Absent),
     PyDict(PyBool(TRUE), Absent, Absent),
     PyDict(PyBool(FALSE), Absent, Absent),
     PyDict(Absent, PyList(<<"Show me all sales data">>), Absent),
     PyDict(Absent, PyList(<<>>), Absent),
     PyDict(PyBool(TRUE), Absent, PyStr(SqlDefault)),
     PyList(<<>>),
     PyList(<<"Show me all sales data">>),
     PyNone,
     NotJson}

\* what session.post meets: a response with a status and a body, no answer
\* within total_timeout seconds, or a connection that cannot be made
ServerResponses ==
    {[kind |-> "response", status |-> st, body |-> b] :
        st \in {200, 400, 422, 500}, b \in ResponseBodies}
      \cup {[kind |-> "timeout", status |-> 0, body |-> PyNone],
            [kind |-> "refused", status |-> 0, body |-> PyNone]}

\* bool(value)
Truthy(value) ==
    CASE value.type = "None" -> FALSE
      [] value.type = "bool" -> value.value
      [] value.type = "list" -> value.value # <<>>
      [] value.type = "str"  -> value.value # ""
      [] value.type = "dict" ->
            \/ value.valid # Absent
            \/ value.suggestions # Absent
            \/ value.sql # Absent
      [] OTHER -> TRUE

\* the try block of send_request (lines 28-43)
send_request_try(response) ==
    IF response.kind = "timeout"
    THEN [returned |-> PyNone, raised |-> "TimeoutError"]
    ELSE IF response.kind = "refused"
    THEN [returned |-> PyNone, raised |-> "ClientConnectorError"]
    ELSE IF response.status = 200
    THEN IF response.body = NotJson
         THEN [returned |-> PyNone, raised |-> "ContentTypeError"]
         ELSE [returned |-> response.body, raised |-> None]
    ELSE [returned |-> PyNone, raised |-> None]

send_request_AnyStatus(response) ==
    IF response.kind = "response" /\ response.body # NotJson
    THEN [returned |-> response.body, raised |-> None]
    ELSE [returned |-> PyNone, raised |-> None]

\* send_request (lines 25-50): both except clauses return None
send_request(response) ==
    LET t == send_request_try(response)
    IN  IF t.raised # None THEN [returned |-> PyNone, raised |-> None] ELSE t

\* process_nl_query (lines 52-66)
process_nl_query(response) == send_request(response)

\* result.get(key, default) if result else default, inside try/except that
\* returns default (lines 77-81, 92-96): .get of a value that is not a dict
\* raises AttributeError
get_or_default(body, key, default) ==
    IF ~Truthy(body) THEN default
    ELSE IF body.type # "dict" THEN default
    ELSE IF body[key] = Absent THEN default
    ELSE body[key]

\* MCPClient.validate_sql (lines 68-81)
client_validate_sql(response) ==
    [returned |-> get_or_default(send_request(response).returned, "valid",
                                 PyBool(FALSE)),
     raised |-> None]

\* get_query_suggestions (lines 83-96)
get_query_suggestions(response) ==
    [returned |-> get_or_default(send_request(response).returned,
                                 "suggestions", PyList(<<>>)),
     raised |-> None]

\* sync_process_nl_query (lines 98-108); loop_ok tells whether the event loop
\* could be made and run
sync_process_nl_query(response, loop_ok) ==
    IF loop_ok THEN process_nl_query(response)
    ELSE [returned |-> PyNone, raised |-> None]

\* one call of a client method and the answer it met
ClientCall(method, endpoint, response, r) ==
    /\ client' = [method |-> method, endpoint |-> endpoint,
                  timeout |-> total_timeout, response |-> response,
                  returned |-> r.returned, raised |-> r.raised]
    /\ UNCHANGED <<openai_api_key, schema_context, nl_query, remote, result,
                   calls, db_query, query_history, current_data, clock, raw,
                   cleaned, unitVars, pending, sidebar, figure, connection,
                   db_call, db_connected>>

SendRequest ==
    \E endpoint \in {"process", "validate", "suggest"},
       response \in ServerResponses :
       ClientCall("send_request", endpoint, response, send_request(response))

ProcessNlQuery ==
    \E response \in ServerResponses :
       ClientCall("process_nl_query", "process", response,
                  process_nl_query(response))

ClientValidateSql ==
    \E response \in ServerResponses :
       ClientCall("validate_sql", "validate", response,
                  client_validate_sql(response))

GetQuerySuggestions ==
    \E response \in ServerResponses :
       ClientCall("get_query_suggestions", "suggest", response,
                  get_query_suggestions(response))

SyncProcessNlQuery ==
    \E response \in ServerResponses, loop_ok \in BOOLEAN :
       ClientCall("sync_process_nl_query", "process", response,
                  sync_process_nl_query(response, loop_ok))

ClientNext ==
    \/ SendRequest
    \/ ProcessNlQuery
    \/ ClientValidateSql
    \/ GetQuerySuggestions
    \/ SyncProcessNlQuery

SpecClient == Init /\ [][ClientNext]_vars

\* ------------------------------------------------------------------------
\* The database handler (Modules/postgres.py, PostgresDB)
\* ------------------------------------------------------------------------

\* what the database does when asked: whether a connection can be made
\* ("ok"; "refused" raises an SQLAlchemyError; "no_driver" raises an error
\* of another class) and what running a statement on a live connection does
DbServers ==
    [connect : {"ok", "refused", "no_driver"},
     run     : {"rows", "empty", "error"}]

\* connect asks the database for nothing but a connection
ConnectServers == {server \in DbServers : server.run = "rows"}

\* the database was not asked anything by the operation
NotAsked == [connect |-> "not_asked", run |-> "not_asked"]

\* the statements handed to execute_query
DbQueries == {"SELECT 1", " SELECT * FROM sales LIMIT 100 ", "", "   ", None}

\* connect (lines 28-37): only an SQLAlchemyError is caught
connect(conn, server) ==
    IF server.connect = "ok"
    THEN [connection |-> "open", returned |-> "True", raised |-> FALSE]
    ELSE IF server.connect = "refused"
    THEN [connection |-> conn, returned |-> "False", raised |-> FALSE]
    ELSE [connection |-> conn, returned |-> None, raised |-> TRUE]

\* disconnect (lines 39-43): the connection object is closed and kept
disconnect(conn) ==
    IF conn # "none" THEN "closed" ELSE conn

\* the try block of execute_query (lines 60-72); used is the state of the
\* connection the statement was run on
execute_query_try(conn, query, server) ==
    LET c == IF conn = "none"
             THEN connect(conn, server)
             ELSE [connection |-> conn, returned |-> "True", raised |-> FALSE]
    IN  IF c.raised
        THEN [connection |-> c.connection, used |-> "unused",
              returned |-> None, raised |-> TRUE]
        ELSE IF c.returned = "False"
        THEN [connection |-> c.connection, used |-> "unused",
              returned |-> "None", raised |-> FALSE]
        ELSE IF query = None \/ Strip(query) = ""
        THEN [connection |-> c.connection, used |-> "unused",
              returned |-> None, raised |-> TRUE]
        ELSE IF c.connection = "closed" \/ server.run = "error"
        THEN [connection |-> c.connection, used |-> c.connection,
              returned |-> None, raised |-> TRUE]
        ELSE [connection |-> c.connection, used |-> c.connection,
              returned |-> IF server.run = "rows" THEN "DataFrame"
                           ELSE "EmptyDataFrame",
              raised |-> FALSE]

execute_query_NoExcept(conn, query, server) ==
    execute_query_try(conn, query, server)

\* execute_query (lines 57-76): any exception of the try block is logged and
\* None is returned
execute_query(conn, query, server) ==
    LET t == execute_query_try(conn, query, server)
    IN  IF t.raised
        THEN [t EXCEPT !.returned = "None", !.raised = FALSE]
        ELSE t

\* test_connection (lines 45-55)
test_connection(conn, server) ==
    IF conn = "none"
    THEN LET c == connect(conn, server)
         IN  [connection |-> c.connection, used |-> "unused",
              returned |-> IF c.raised THEN "False" ELSE c.returned,
              raised |-> FALSE]
    ELSE [connection |-> conn, used |-> conn,
          returned |-> IF conn = "open" /\ server.run # "error"
                       THEN "True" ELSE "False",
          raised |-> FALSE]

\* a caller connects (db_manager.py line 25, streamlit_app.py line 115)
DbConnect ==
    /\ \E server \in ConnectServers :
         \E c \in {connect(connection, server)} :
            /\ connection' = c.connection
            /\ db_call' = [op |-> "connect", query |-> None, before |-> connection,
                           server |-> server, used |-> "unused",
                           returned |-> c.returned, raised |-> c.raised]
    /\ UNCHANGED <<openai_api_key, schema_context, nl_query, remote, result,
                   calls, db_query, query_history, current_data, clock, raw,
                   cleaned, unitVars, pending, sidebar, figure, client,
                   db_connected>>

\* a caller disconnects (db_manager.py line 72)
DbDisconnect ==
    /\ connection' = disconnect(connection)
    /\ db_call' = [op |-> "disconnect", query |-> None, before |-> connection,
                   server |-> NotAsked, used |-> "unused",
                   returned |-> "None", raised |-> FALSE]
    /\ UNCHANGED <<openai_api_key, schema_context, nl_query, remote, result,
                   calls, db_query, query_history, current_data, clock, raw,
                   cleaned, unitVars, pending, sidebar, figure, client,
                   db_connected>>

\* a caller runs a statement
DbExecuteQuery ==
    /\ \E query \in DbQueries, server \in DbServers :
         \E e \in {execute_query(connection, query, server)} :
            /\ connection' = e.connection
            /\ db_call' = [op |-> "execute_query", query |-> query,
                           before |-> connection, server |-> server,
                           used |-> e.used, returned |-> e.returned,
                           raised |-> e.raised]
    /\ UNCHANGED <<openai_api_key, schema_context, nl_query, remote, result,
                   calls, db_query, query_history, current_data, clock, raw,
                   cleaned, unitVars, pending, sidebar, figure, client,
                   db_connected>>

\* a caller tests the connection (db_manager.py line 32, streamlit_app.py
\* line 132)
DbTestConnection ==
    /\ \E server \in DbServers :
         \E t \in {test_connection(connection, server)} :
            /\ connection' = t.connection
            /\ db_call' = [op |-> "test_connection", query |-> None,
                           before |-> connection, server |-> server,
                           used |-> t.used, returned |-> t.returned,
                           raised |-> t.raised]
    /\ UNCHANGED <<openai_api_key, schema_context, nl_query, remote, result,
                   calls, db_query, query_history, current_data, clock, raw,
                   cleaned, unitVars, pending, sidebar, figure, client,
                   db_connected>>

DbNext == DbConnect \/ DbDisconnect \/ DbExecuteQuery \/ DbTestConnection

SpecDb == Init /\ [][DbNext]_vars

\* ------------------------------------------------------------------------
\* The dashboard (streamlit_app.py, main)
\* ------------------------------------------------------------------------

\* what the user can have typed in the text area
DashQuestions == {"Show me all sales data", "count sales", "   "}

DashRemotes ==
    {[kind |-> "text",
      content |-> BQ \o BQ \o BQ \o "sql\nSELECT * FROM customers\n" \o BQ \o BQ \o BQ],
     [kind |-> "text", content |-> "DROP TABLE sales"],
     [kind |-> "text", content |-> "SELECT 1; DROP TABLE sales"]}

\* natural_language_to_sql on the dashboard's inputs, evaluated once
DashResolution ==
    [q \in DashQuestions, key \in BOOLEAN, rem \in DashRemotes |->
        natural_language_to_sql(q, key, rem)]

\* the number of history entries the sidebar lists (line 144)
HistoryShown == 5

Reverse(s) == [i \in 1..Len(s) |-> s[Len(s) + 1 - i]]

SidebarHistory_Uncapped(history) == Reverse(history)

\* what the sidebar lists (lines 143-150): reversed(query_history[-5:])
SidebarHistory(history) ==
    Reverse(SubSeq(history, Max({1, Len(history) - HistoryShown + 1}),
                   Len(history)))

history_after_AnyFrame(history, returned, entry) ==
    IF returned \in {"DataFrame", "EmptyDataFrame"}
    THEN Append(history, entry) ELSE history

\* the history after db.execute_query returned (lines 246-253)
history_after(history, returned, entry) ==
    IF returned = "DataFrame" THEN Append(history, entry) ELSE history

\* the database as the dashboard's queries meet it once connected
DashServers == {server \in DbServers : server.connect = "ok"}

\* user_query.strip() is empty (line 223), evaluated once
DashBlank == [q \in DashQuestions |-> Strip(q) = ""]

\* set_database_schema on the dashboard's inputs, evaluated once
DashSchemaContext == [table_info \in TableInfos |-> set_database_schema(table_info)]

\* the statements the dashboard can hand to the database
DashStatements ==
    {DashResolution[q, key, rem].sql :
        q \in DashQuestions, key \in BOOLEAN, rem \in DashRemotes}

\* execute_query on the dashboard's statements, evaluated once
DashExecution ==
    [conn \in {"none", "open", "closed"}, sql \in DashStatements,
     server \in DashServers |-> execute_query(conn, sql, server)]

\* the Connect to Database button (lines 113-125); an error that connect does
\* not catch ends the script run before the sidebar history is drawn
DashConnect ==
    /\ \E server \in ConnectServers :
         \E c \in {connect(connection, server)} :
            /\ connection' = c.connection
            /\ db_call' = [op |-> "connect", query |-> None, before |-> connection,
                           server |-> server, used |-> "unused",
                           returned |-> c.returned, raised |-> c.raised]
            /\ db_connected' = (db_connected \/ c.returned = "True")
            /\ sidebar' = IF c.raised THEN sidebar
                          ELSE SidebarHistory(query_history)
    /\ UNCHANGED <<openai_api_key, schema_context, nl_query, remote, result,
                   calls, db_query, query_history, current_data, clock, raw,
                   cleaned, unitVars, pending, figure, client>>

\* the Execute Query button with a question that is not blank (lines 222-319),
\* in a script run that drew the sidebar first (lines 141-150) and passed the
\* test of line 158
ExecuteQueryOn(questions, infos, remotes, servers, cap) ==
    /\ db_connected
    /\ \E user_query \in questions, table_info \in infos, rem \in remotes,
          server \in servers :
          /\ ~DashBlank[user_query]
          /\ nl_query' = user_query
          /\ \E r \in {DashResolution[user_query, openai_api_key, rem]} :
               \E e \in {DashExecution[connection, r.sql, server]} :
                  /\ sidebar' = SidebarHistory(query_history)
                  /\ schema_context' = DashSchemaContext[table_info]
                  /\ result' = [sql |-> r.sql, method |-> r.method]
                  /\ calls' = r.calls
                  /\ remote' = IF \E i \in 1..Len(r.calls) : r.calls[i] = "openai"
                               THEN rem ELSE NotCalled
                  /\ db_query' = r.sql
                  /\ connection' = e.connection
                  /\ db_call' = [op |-> "execute_query", query |-> r.sql,
                                 before |-> connection, server |-> server,
                                 used |-> e.used, returned |-> e.returned,
                                 raised |-> e.raised]
                  /\ current_data' = IF e.returned = "DataFrame"
                                     THEN [rows_of |-> r.sql] ELSE current_data
                  /\ query_history' =
                         history_after(query_history, e.returned,
                                       <<clock, user_query, r.sql>>)
                  /\ Len(query_history') <= cap
    /\ UNCHANGED <<openai_api_key, clock, raw, cleaned, unitVars, pending,
                   figure, client, db_connected>>

ExecuteQuery ==
    ExecuteQueryOn(DashQuestions, TableInfos, DashRemotes, DashServers, MaxHistory)

\* the Execute Query button with a blank question (lines 321-322): a warning
ExecuteBlankQuery ==
    /\ db_connected
    /\ \E user_query \in DashQuestions : DashBlank[user_query]
    /\ sidebar' = SidebarHistory(query_history)
    /\ UNCHANGED <<openai_api_key, schema_context, nl_query, remote, result,
                   calls, db_query, query_history, current_data, clock, raw,
                   cleaned, unitVars, pending, figure, client, connection,
                   db_call, db_connected>>

\* the Clear History button (lines 153-155): the history is emptied and the
\* script runs again
ClearHistory ==
    /\ query_history' = <<>>
    /\ sidebar' = SidebarHistory(query_history')
    /\ UNCHANGED <<openai_api_key, schema_context, nl_query, remote, result,
                   calls, db_query, current_data, clock, raw, cleaned, unitVars,
                   pending, figure, client, connection, db_call, db_connected>>

\* a second passes on the clock that datetime.now() reads
Tick ==
    /\ clock < MaxClock
    /\ clock' = clock + 1
    /\ UNCHANGED <<openai_api_key, schema_context, nl_query, remote, result,
                   calls, db_query, query_history, current_data, raw, cleaned, unitVars,
                   serviceVars>>

\* a session that asks more questions than the sidebar lists
MaxLongHistory == 6

HistoryQuestions == {"Show me all sales data", "count sales"}

HistoryRemotes == {[kind |-> "text", content |-> "DROP TABLE sales"]}

HistoryExecuteQuery ==
    ExecuteQueryOn(HistoryQuestions, {<<>>}, HistoryRemotes, DashServers,
                   MaxLongHistory)

HistoryNext ==
    DashConnect \/ HistoryExecuteQuery \/ ExecuteBlankQuery \/ ClearHistory

SpecHistory == Init /\ [][HistoryNext]_vars

Next == DashConnect \/ ExecuteQuery \/ ExecuteBlankQuery \/ ClearHistory \/ Tick

\* ------------------------------------------------------------------------
\* Dashboard sessions sharing the cached components (streamlit_app.py lines
\* 87-94): every session runs main() in a thread of its own, on the one
\* QueryProcessor that init_components returned to all of them
\* ------------------------------------------------------------------------

\* session s, inside the Execute Query handler, reads the tables and sets
\* the schema context of the shared processor (lines 226-227)
SessionSetSchema(s) ==
    /\ sessions[s].pc = "idle"
    /\ \E user_query \in DashQuestions, table_info \in TableInfos :
         /\ Strip(user_query) # ""
         /\ schema_context' = set_database_schema(table_info)
         /\ sessions' = [sessions EXCEPT ![s] =
                            [pc |-> "schema_set", question |-> user_query,
                             own_context |-> set_database_schema(table_info),
                             prompt |-> None]]
    /\ UNCHANGED <<openai_api_key, nl_query, remote, result, calls, db_query,
                   query_history, current_data, clock, raw, cleaned, recleaned,
                   valid, explanation, described, twin, http,
                   serviceVars>>

\* session s calls natural_language_to_sql (line 230); when the question
\* gets to _openai_to_sql, the prompt is built from the schema context the
\* shared processor holds at that moment (query_processor.py line 103)
SessionResolve(s) ==
    /\ sessions[s].pc = "schema_set"
    /\ \E rem \in DashRemotes :
         \E r \in {DashResolution[sessions[s].question, openai_api_key, rem]} :
            /\ sessions' = [sessions EXCEPT ![s] =
                   [@ EXCEPT !.pc = "resolved",
                             !.prompt = IF \E i \in 1..Len(r.calls) : r.calls[i] = "openai"
                                        THEN system_prompt(schema_context)
                                        ELSE NoPrompt]]
            /\ nl_query' = sessions[s].question
            /\ result' = [sql |-> r.sql, method |-> r.method]
            /\ calls' = r.calls
            /\ remote' = IF \E i \in 1..Len(r.calls) : r.calls[i] = "openai"
                         THEN rem ELSE NotCalled
    /\ UNCHANGED <<openai_api_key, schema_context, db_query, query_history,
                   current_data, clock, raw, cleaned, recleaned, valid,
                   explanation, described, twin, http,
                   serviceVars>>

\* the script run of session s ends
SessionDone(s) ==
    /\ sessions[s].pc = "resolved"
    /\ sessions' = [sessions EXCEPT ![s] = IdleSession]
    /\ UNCHANGED <<openai_api_key, schema_context, nl_query, remote, result,
                   calls, db_query, query_history, current_data, clock, raw,
                   cleaned, recleaned, valid, explanation, described, twin, http,
                   serviceVars>>

SessionsNext ==
    \E s \in Sessions : SessionSetSchema(s) \/ SessionResolve(s) \/ SessionDone(s)

SpecSessions == Init /\ [][SessionsNext]_vars

\* ------------------------------------------------------------------------
\* The server (Modules/mcp_server.py); its QueryProcessor is the module-level
\* query_processor of line 26
\* ------------------------------------------------------------------------

\* the task field of a request
Tasks == {"nl_to_sql", "validate_sql", "suggest_queries"}

\* the query field of a request: any str
ServerQuestions ==
    {"Show me all sales data", "count sales", "hello", "   ", ""}

\* a schema field whose value for a table is a str, not a list of column
\* records: set_database_schema raises on it
MalformedSchema == <<[table_name |-> "sales", text |-> "id integer"]>>

ServerSchemas == TableInfos \cup {MalformedSchema}

ServerRemotes ==
    {[kind |-> "timeout"],
     [kind |-> "text", content |-> "SELECT COUNT(*) FROM sales"],
     [kind |-> "text", content |-> "Sorry, I cannot answer that"]}

\* str(e) of the HTTPException raised on line 56, as the installed version of
\* the framework prints it
InvalidTaskDetails == {"", "400: Invalid task type"}

\* the sql field of a /validate request
ServerSqls ==
    {"SELECT COUNT(*) FROM sales", "DROP TABLE sales", "SELECT * FROM t WHERE (a = 1"}

\* the context field of a /suggest request
ServerContexts == {"", "sales"}

\* the list suggestions of lines 108-119
suggestions ==
    <<"Show me all sales data",
      "What are the total sales by category?",
      "Show me sales trends over time",
      "Which region has the highest sales?",
      "Show me customer demographics",
      "What's the average age of customers?",
      "Show me top selling products",
      "What are the sales by region?",
      "Show me recent sales transactions",
      "What's the total revenue this month?">>

\* faulty variant: a statement that fails validate_sql is replaced by the
\* default statement
ServerAnswer_ReplacesInvalid ==
    [query \in ServerQuestions, key \in BOOLEAN, rem \in ServerRemotes |->
        LET r == natural_language_to_sql(query, key, rem)
            sql == IF validate_sql(r.sql) THEN r.sql ELSE SqlDefault
        IN  [calls |-> r.calls,
             body |-> [sql |-> sql,
                       method |-> r.method,
                       valid |-> validate_sql(sql),
                       explanation |-> get_query_explanation(sql),
                       original_query |-> query]]]

\* lines 62-76 on the requests of the model, evaluated once
ServerAnswer ==
    [query \in ServerQuestions, key \in BOOLEAN, rem \in ServerRemotes |->
        LET r == natural_language_to_sql(query, key, rem)
        IN  [calls |-> r.calls,
             body |-> [sql |-> r.sql,
                       method |-> r.method,
                       valid |-> validate_sql(r.sql),
                       explanation |-> get_query_explanation(r.sql),
                       original_query |-> query]]]

\* POST /process (lines 51-80).  The HTTPException of line 56 is raised
\* inside the try and caught by the except Exception of line 78, which
\* raises the HTTPException with status 500.
ProcessQuery ==
    /\ \E task \in Tasks, query \in ServerQuestions, schema \in ServerSchemas,
          rem \in ServerRemotes :
          LET request == [query |-> query, schema |-> schema, task |-> task]
          IN  IF task # "nl_to_sql"
              THEN /\ \E detail \in InvalidTaskDetails :
                        http' = [endpoint |-> "process", request |-> request,
                                 status |-> 500, detail |-> detail]
                   /\ UNCHANGED <<schema_context, nl_query, result, calls, remote>>
              ELSE IF schema = MalformedSchema
              THEN /\ http' = [endpoint |-> "process", request |-> request,
                               status |-> 500,
                               detail |-> "string indices must be integers"]
                   /\ UNCHANGED <<schema_context, nl_query, result, calls, remote>>
              ELSE \E r \in {ServerAnswer[query, openai_api_key, rem]} :
                   /\ schema_context' = set_database_schema(schema)
                   /\ nl_query' = query
                   /\ result' = [sql |-> r.body.sql, method |-> r.body.method]
                   /\ calls' = r.calls
                   /\ remote' = IF \E i \in 1..Len(r.calls) : r.calls[i] = "openai"
                                THEN rem ELSE NotCalled
                   /\ http' = [endpoint |-> "process", request |-> request,
                               status |-> 200, body |-> r.body]
    /\ UNCHANGED <<openai_api_key, db_query, query_history, current_data, clock,
                   raw, cleaned, recleaned, valid, explanation, described, twin,
                   sessions,
                   serviceVars>>

\* validate_sql on the statements of the model, evaluated once
ServerVerdict == [sql \in ServerSqls |-> validate_sql(sql)]

\* POST /validate (lines 82-98); the HTTPException of line 87 ends in the
\* except Exception of line 96 as in /process
ValidateSql ==
    /\ \E task \in Tasks, sql \in ServerSqls :
          LET request == [sql |-> sql, task |-> task]
          IN  IF task # "validate_sql"
              THEN \E detail \in InvalidTaskDetails :
                      http' = [endpoint |-> "validate", request |-> request,
                               status |-> 500, detail |-> detail]
              ELSE http' = [endpoint |-> "validate", request |-> request,
                            status |-> 200,
                            body |-> [valid |-> ServerVerdict[sql], sql |-> sql]]
    /\ UNCHANGED <<openai_api_key, schema_context, nl_query, remote, result,
                   calls, db_query, query_history, current_data, clock, raw,
                   cleaned, recleaned, valid, explanation, described, twin,
                   sessions, serviceVars>>

\* POST /suggest (lines 100-128); the HTTPException of line 105 ends in the
\* except Exception of line 126 as in /process
GetSuggestions ==
    /\ \E task \in Tasks, context \in ServerContexts :
          LET request == [context |-> context, task |-> task]
          IN  IF task # "suggest_queries"
              THEN \E detail \in InvalidTaskDetails :
                      http' = [endpoint |-> "suggest", request |-> request,
                               status |-> 500, detail |-> detail]
              ELSE http' = [endpoint |-> "suggest", request |-> request,
                            status |-> 200,
                            body |-> [suggestions |-> suggestions,
                                      context |-> context]]
    /\ UNCHANGED <<openai_api_key, schema_context, nl_query, remote, result,
                   calls, db_query, query_history, current_data, clock, raw,
                   cleaned, recleaned, valid, explanation, described, twin,
                   sessions, serviceVars>>

ServerNext == ProcessQuery \/ ValidateSql \/ GetSuggestions

SpecServer == Init /\ [][ServerNext]_vars

Spec == Init /\ [][Next]_vars

SanitizeNext == Sanitize \/ Resanitize \/ Validate

SpecSanitize == Init /\ [][SanitizeNext]_vars

SpecResolve == Init /\ [][Resolve]_vars

\* ------------------------------------------------------------------------
\* natural_language_to_sql step by step: up to the remote call, and from the
\* moment the remote call returns or raises
\* ------------------------------------------------------------------------

\* natural_language_to_sql is entered; it returns at once (lines 83-91
\* without line 89) or issues openai.ChatCompletion.create and waits
StartResolve ==
    /\ calls = <<>>
    /\ pending = NoPending
    /\ \E q \in Questions :
         \E r \in {natural_language_to_sql(q, openai_api_key, [kind |-> "timeout"])} :
            /\ nl_query' = q
            /\ IF \E i \in 1..Len(r.calls) : r.calls[i] = "openai"
               THEN /\ pending' = [awaiting |-> TRUE,
                                   kwargs |-> create_kwargs(schema_context, q)]
                    /\ calls' = <<"pattern", "openai">>
                    /\ UNCHANGED <<result, remote>>
               ELSE /\ result' = [sql |-> r.sql, method |-> r.method]
                    /\ calls' = r.calls
                    /\ UNCHANGED <<pending, remote>>
    /\ UNCHANGED <<openai_api_key, schema_context, db_query, query_history,
                   current_data, clock, raw, cleaned, unitVars, sidebar, figure,
                   client, connection, db_call, db_connected>>

\* the call of line 119 returns a completion or raises, and
\* natural_language_to_sql runs to its end (lines 129-136)
RemoteReturns ==
    /\ pending # NoPending
    /\ \E rem \in Remotes :
         \E r \in {natural_language_to_sql(nl_query, openai_api_key, rem)} :
            /\ result' = [sql |-> r.sql, method |-> r.method]
            /\ calls' = r.calls
            /\ remote' = rem
            /\ pending' = NoPending
    /\ UNCHANGED <<openai_api_key, schema_context, nl_query, db_query,
                   query_history, current_data, clock, raw, cleaned, unitVars,
                   sidebar, figure, client, connection, db_call, db_connected>>

RemoteNext == StartResolve \/ RemoteReturns

SpecRemote == Init /\ [][RemoteNext]_vars

SpecExplain == Init /\ [][Explain]_vars

SpecSchema == Init /\ [][SetSchema]_vars

SpecTwin == Init /\ [][ResolveTwice]_vars

\* ------------------------------------------------------------------------
\* Properties of natural_language_to_sql (checked under SpecResolve)
\* ------------------------------------------------------------------------

\* a call of natural_language_to_sql on a str has returned
Resolved == calls # <<>> /\ nl_query # None

Called(stage) == \E i \in 1..Len(calls) : calls[i] = stage

\* the entries of each table whose regex matches the question, tabulated
\* once for the questions of the model
Tier1HitsOf ==
    [q \in (Questions \cup DashQuestions) \ {None} |->
        {k \in 1..Len(fallback_patterns) : ReMatch(fallback_patterns[k].re, q)}]

Tier2HitsOf ==
    [q \in (Questions \cup DashQuestions) \ {None} |->
        {k \in 1..Len(patterns) : ReSearch(patterns[k].re, q)}]

Tier1Hits(q) == Tier1HitsOf[q]

Tier2Hits(q) == Tier2HitsOf[q]

Least(S) == CHOOSE k \in S : \A j \in S : k <= j

\* the remote call raised, or the sanitizer rejected the text it returned
RemoteUnusable(rem) ==
    \/ rem \in RemoteFailures
    \/ rem.kind = "text" /\ ~clean_sql_query(Strip(rem.content)).ok

C3_Tier1BeforeRemote ==
    (Resolved /\ Tier1Hits(nl_query) # {}) =>
        /\ ~Called("openai")
        /\ remote = NotCalled
        /\ result.method = "Pattern matching"
        /\ \E k \in Tier1Hits(nl_query) : result.sql = fallback_patterns[k].sql
        /\ nl_query = "Show me all sales data" => result.sql = SqlAllSales

C3_Witness ==
    /\ Resolved
    /\ openai_api_key
    /\ nl_query = "Show me all sales data"
    /\ result = [sql |-> "SELECT * FROM sales ORDER BY sale_date DESC",
                 method |-> "Pattern matching"]

\* C4: without a credential no remote call is made, and a question that
\* matches neither table resolves to SELECT * FROM sales LIMIT 10 with the
\* method "Default fallback".
C4_NoCredentialNoRemote ==
    (Resolved /\ ~openai_api_key) =>
        /\ ~Called("openai")
        /\ (Tier1Hits(nl_query) = {} /\ Tier2Hits(nl_query) = {}) =>
             result = [sql |-> "SELECT * FROM sales LIMIT 10",
                       method |-> "Default fallback"]

C4_Witness ==
    /\ Resolved
    /\ ~openai_api_key
    /\ Tier1Hits(nl_query) = {}
    /\ Tier2Hits(nl_query) = {}
    /\ result.sql = SqlDefault

\* C5: within a table the earliest entry, in declaration order, whose regex
\* matches the question is the one whose SQL is returned.
C5_FirstEntryWins ==
    Resolved =>
        /\ result.method = "Pattern matching" =>
             \E k \in Tier1Hits(nl_query) :
                /\ result.sql = fallback_patterns[k].sql
                /\ \A j \in Tier1Hits(nl_query) : k <= j
        /\ result.method = "Rule-based matching" =>
             \E k \in Tier2Hits(nl_query) :
                /\ result.sql = patterns[k].sql
                /\ \A j \in Tier2Hits(nl_query) : k <= j
        /\ nl_query = "What are the total sales by category?" =>
             result.sql = SqlSalesByCategory

C5_Witness ==
    /\ Resolved
    /\ nl_query = "What are the total sales by category?"
    /\ {2, 3} \subseteq Tier1Hits(nl_query)
    /\ result.sql = SqlSalesByCategory

\* C6 as stated: every result whose method is not the error method carries
\* SQL that validate_sql accepts.
C6_ResultPassesValidation ==
    (calls # <<>> /\ ~StartsWith(result.method, "Error")) => validate_sql(result.sql)

\* ------------------------------------------------------------------------
\* Properties of the dashboard (checked under Spec)
\* ------------------------------------------------------------------------

\* C7: every statement the dashboard hands to the database is one that
\* clean_sql_query accepts; text of the remote model that clean_sql_query
\* rejected is not handed over, the rule-based stage's statement is.
C7_OnlySanitizedReachesDb ==
    db_query # None =>
        /\ clean_sql_query(db_query).ok
        /\ db_query = result.sql
        /\ (remote.kind = "text" /\ ~clean_sql_query(Strip(remote.content)).ok) =>
             /\ db_query # Strip(remote.content)
             /\ result.method \in {"Rule-based matching", "Default fallback"}
             /\ db_query = rule_based_to_sql(nl_query).sql

C7_Witness ==
    /\ nl_query = "count sales"
    /\ remote = [kind |-> "text", content |-> "DROP TABLE sales"]
    /\ db_query = "SELECT COUNT(*) as total_sales_count FROM sales"

\* C8 as stated: no statement handed to the database in answer to a question
\* contains DROP, DELETE, INSERT, UPDATE, ALTER, CREATE or TRUNCATE.
C8_NoMutatingKeywordReachesDb ==
    db_query # None =>
        \A k \in 1..Len(dangerous_keywords) :
            ~Contains(Upper(db_query), dangerous_keywords[k])

\* ------------------------------------------------------------------------
\* Properties of clean_sql_query (checked under SpecSanitize)
\* ------------------------------------------------------------------------

Fence == BQ \o BQ \o BQ

\* some keyword occurs in t at a position from `from' on
KeywordFrom(t, from) ==
    \E k \in 1..Len(dangerous_keywords) :
        \E i \in from..Len(t) : OccursAt(t, dangerous_keywords[k], i)

\* no whitespace but single blanks, each between two other characters
Collapsed(t) ==
    \A i \in 1..Len(t) :
        CharAt(t, i) \in Whitespace =>
            /\ CharAt(t, i) = " "
            /\ 1 < i /\ i < Len(t)
            /\ CharAt(t, i - 1) # " "

\* C9: clean_sql_query removes the code-fence markers and collapses the
\* whitespace, then raises exactly when the text so obtained, upper-cased,
\* contains one of the keywords and does not begin with SELECT; otherwise it
\* returns that text.
C9_RaisesIffKeywordWithoutSelect ==
    raw # None =>
        \E t \in {CleanText(raw)} :
            /\ ~Contains(t, Fence)
            /\ Collapsed(t)
            /\ cleaned.ok <=> ~(KeywordFrom(Upper(t), 1) /\ ~StartsWith(Upper(t), "SELECT"))
            /\ cleaned.ok => cleaned.sql = t
            /\ ~cleaned.ok => Contains(Upper(t), cleaned.keyword)

C9_Witness ==
    /\ raw = "delete from sales"
    /\ cleaned = [ok |-> FALSE, keyword |-> "DELETE"]

\* C10 as stated: every text that contains a keyword anywhere but at its start
\* is rejected, texts that begin with SELECT included.
C10_KeywordNotAtStartRejected ==
    raw # None =>
        (KeywordFrom(Upper(CleanText(raw)), 2) => ~cleaned.ok)

\* C10 amended: a text that contains a keyword anywhere but at its start is
\* rejected when it does not begin with SELECT; a text that begins with SELECT
\* is accepted whatever keywords it contains elsewhere (SELECT * FROM t -- DROP
\* and a SELECT over a column updated_at are returned, not flagged).
C10_KeywordRejectedUnlessSelect ==
    raw # None =>
        \E u \in {Upper(CleanText(raw))} :
            /\ (KeywordFrom(u, 2) /\ ~StartsWith(u, "SELECT")) => ~cleaned.ok
            /\ StartsWith(u, "SELECT") => cleaned.ok
            /\ raw \in {"SELECT * FROM t -- DROP", "SELECT updated_at FROM t"} =>
                 cleaned = [ok |-> TRUE, sql |-> raw]

C10_Witness ==
    /\ raw = "SELECT updated_at FROM t"
    /\ KeywordFrom(Upper(CleanText(raw)), 2)
    /\ cleaned.ok

\* ------------------------------------------------------------------------
\* Properties of validate_sql and of repeated sanitizing (SpecSanitize)
\* ------------------------------------------------------------------------

C12_SanitizeIdempotent ==
    recleaned # NotCleaned =>
        /\ cleaned.ok
        /\ recleaned = [ok |-> TRUE, sql |-> cleaned.sql]

C12_Witness ==
    /\ raw = BQ \o BQ \o BQ \o "sql\nSELECT * FROM customers\n" \o BQ \o BQ \o BQ
    /\ cleaned = [ok |-> TRUE, sql |-> "SELECT * FROM customers"]
    /\ recleaned = cleaned

\* ------------------------------------------------------------------------
\* Failure paths of natural_language_to_sql (checked under SpecResolve)
\* ------------------------------------------------------------------------

\* C13: when the remote call is made and raises (timeout, network error, error
\* status, malformed payload) or returns a text that clean_sql_query rejects,
\* natural_language_to_sql returns what the rule-based stage returns for the
\* question, the default statement when no rule matches, and never the error
\* pair.
C13_RemoteFailureFallsBackToRules ==
    (Resolved /\ Called("openai") /\ RemoteUnusable(remote)) =>
        /\ ~StartsWith(result.method, "Error")
        /\ result.sql # SqlError
        /\ calls = <<"pattern", "openai", "rule_based">>
        /\ IF Tier2Hits(nl_query) = {}
           THEN result = [sql |-> SqlDefault, method |-> "Default fallback"]
           ELSE result = [sql |-> patterns[Least(Tier2Hits(nl_query))].sql,
                          method |-> "Rule-based matching"]

C13_Witness ==
    /\ nl_query = "hello"
    /\ remote = [kind |-> "malformed_payload"]
    /\ result = [sql |-> SqlDefault, method |-> "Default fallback"]

\* C14: every call of natural_language_to_sql returns a (sql, method) pair; an
\* exception that no tier handles (the argument is not a str) is turned into
\* the statement SELECT 1 as error with a method that starts with "Error: "
\* and carries the exception's message.
C14_NoExceptionEscapes ==
    calls # <<>> =>
        /\ result.sql # None
        /\ result.method # None
        /\ nl_query = None =>
             /\ result.sql = "SELECT 1 as error"
             /\ StartsWith(result.method, "Error: ")
             /\ Len(result.method) > Len("Error: ")
        /\ nl_query # None => ~StartsWith(result.method, "Error")

C14_Witness ==
    /\ nl_query = None
    /\ calls = <<"pattern">>
    /\ result = [sql |-> "SELECT 1 as error",
                 method |-> "Error: expected string or bytes-like object"]

\* C15: one call of natural_language_to_sql makes the remote call at most
\* once, also when the remote call raises or its text is rejected.
C15_AtMostOneRemoteCall ==
    calls # <<>> =>
        Cardinality({i \in 1..Len(calls) : calls[i] = "openai"}) <= 1

C15_Witness ==
    /\ remote = [kind |-> "timeout"]
    /\ calls = <<"pattern", "openai", "rule_based">>

\* ------------------------------------------------------------------------
\* Properties of get_query_explanation (checked under SpecExplain)
\* ------------------------------------------------------------------------

\* the vocabulary entries whose pattern the statement contains, letter case
\* aside
Explained(sql) ==
    CHOOSE K \in
        { {k \in 1..Len(explanations) :
              \E i \in 1..Len(u) : OccursAt(u, Upper(explanations[k].pattern), i)}
          : u \in {Upper(sql)} } : TRUE

\* where the text t starts in s
PositionIn(s, t) == Min({i \in 1..Len(s) : OccursAt(s, t, i)})

RECURSIVE TotalLen(_)
TotalLen(K) ==
    IF K = {} THEN 0
    ELSE LET k == CHOOSE x \in K : TRUE
         IN  Len(explanations[k].text) + TotalLen(K \ {k})

\* C19: get_query_explanation always returns a text.  When the statement
\* contains, letter case aside, the pattern of at least one vocabulary entry,
\* the text is "This query is: " followed by the explanations of exactly the
\* entries contained, in the order of the vocabulary, joined by ", "; when it
\* contains none, the text is the generic sentence.  For SELECT COUNT(*) FROM
\* sales the text contains "Counting total number of records".
C19_ExplanationListsContainedEntries ==
    explanation # NoExplanation =>
        /\ explanation.text # None
        /\ explanation.of # None =>
             \E K \in {Explained(explanation.of)}, t \in {explanation.text} :
                /\ K = {} <=> t = "This query retrieves data from the database"
                /\ K # {} =>
                     /\ StartsWith(t, "This query is: ")
                     /\ \A k \in 1..Len(explanations) :
                           k \in K <=> Contains(t, explanations[k].text)
                     /\ \A i, j \in K :
                           i < j => PositionIn(t, explanations[i].text) + Len(explanations[i].text) + Len(", ")
                                      <= PositionIn(t, explanations[j].text)
                     /\ Len(t) = Len("This query is: ") + TotalLen(K)
                                    + Len(", ") * (Cardinality(K) - 1)
                     /\ \A i \in K : i # Max(K) =>
                           OccursAt(t, ", ", PositionIn(t, explanations[i].text)
                                                + Len(explanations[i].text))
        /\ explanation.of = "SELECT COUNT(*) FROM sales" =>
             Contains(explanation.text, "Counting total number of records")

C19_Witness ==
    /\ explanation.of = " LIMIT 5 order by bCOUNT(*)"
    /\ explanation.text = "This query is: Sorting results by specified column(s), "
                            \o "Counting total number of records, "
                            \o "Limiting number of results returned"

\* ------------------------------------------------------------------------
\* Properties of set_database_schema (checked under SpecSchema)
\* ------------------------------------------------------------------------

\* s.split(sep) as a sequence
RECURSIVE SplitOn(_, _)
SplitOn(s, sep) ==
    LET occ == {i \in 1..(Len(s) - Len(sep) + 1) : OccursAt(s, sep, i)}
    IN  IF occ = {} THEN <<s>>
        ELSE <<SubSeq(s, 1, Min(occ) - 1)>>
               \o SplitOn(SubSeq(s, Min(occ) + Len(sep), Len(s)), sep)

\* item reads "<name> (<type>)", followed by " NOT NULL" exactly when the
\* column is not nullable
DescribesColumn(item, col) ==
    LET plain == col.column_name \o " (" \o col.data_type \o ")"
    IN  IF col.is_nullable = "NO" THEN item = plain \o " NOT NULL" ELSE item = plain

\* block reads "Table: <name>" and, on the next line, "Columns: " and the
\* columns of the table in their order, separated by ", "
DescribesTable(block, table) ==
    \E lines \in {SplitOn(block, "\n")} :
        /\ Len(lines) = 2
        /\ lines[1] = "Table: " \o table.table_name
        /\ StartsWith(lines[2], "Columns: ")
        /\ \E rest \in {SubSeq(lines[2], Len("Columns: ") + 1, Len(lines[2]))} :
              IF table.columns = <<>> THEN rest = ""
              ELSE \E items \in {SplitOn(rest, ", ")} :
                      /\ Len(items) = Len(table.columns)
                      /\ \A c \in 1..Len(items) :
                            DescribesColumn(items[c], table.columns[c])

\* C20: after set_database_schema the schema context is made of the mapping
\* handed to it alone, whatever the context was before: one block per table
\* in insertion order, blocks separated by one blank line, each block
\* "Table: <name>" then "Columns: " with "<name> (<type>)" per column, " NOT
\* NULL" added exactly for the columns whose is_nullable is NO; the empty
\* mapping gives the empty string.
C20_SchemaContextDescribesMapping ==
    described # NotDescribed =>
        \E d \in {described.table_info} :
            /\ d = <<>> <=> schema_context = ""
            /\ d # <<>> =>
                 \E blocks \in {SplitOn(schema_context, "\n\n")} :
                    /\ Len(blocks) = Len(d)
                    /\ \A t \in 1..Len(d) : DescribesTable(blocks[t], d[t])
            /\ d = <<SalesTable>> =>
                 schema_context = "Table: sales\nColumns: id (integer) NOT NULL, region (text)"

C20_Witness ==
    /\ described # NotDescribed
    /\ described.table_info = <<SalesTable>>
    /\ described.before = "Table: customers\nColumns: region (text)\n\nTable: sales\nColumns: "
    /\ schema_context = "Table: sales\nColumns: id (integer) NOT NULL, region (text)"

\* ------------------------------------------------------------------------
\* The schema context and the resolver (checked under SpecTwin)
\* ------------------------------------------------------------------------

ByTable(run) ==
    run.method \in {"Pattern matching", "Rule-based matching", "Default fallback"}

Answer(run) == <<run.sql, run.method>>

\* the schema text between the head and the tail of a prompt
SchemaInPrompt(prompt) ==
    SubSeq(prompt, Len(PromptHead) + 1, Len(prompt) - Len(PromptTail))

\* C17: of two resolutions of one question that differ in the schema
\* descriptor set before them, (a) when one is answered without the remote
\* call being made, so is the other, and with the same (sql, method); (b)
\* when both are answered by tier 1, tier 2 or the default statement, the
\* (sql, method) is the same; the schema context appears in the prompt of the
\* remote call and nowhere else.
C17_SchemaReachesOnlyThePrompt ==
    twin # <<>> =>
        \E a \in {twin[1].run}, b \in {twin[2].run} :
            /\ a.prompt = NoPrompt =>
                 /\ b.prompt = NoPrompt
                 /\ Answer(a) = Answer(b)
            /\ (ByTable(a) /\ ByTable(b)) => Answer(a) = Answer(b)
            /\ a.prompt # NoPrompt =>
                 SchemaInPrompt(a.prompt) = set_database_schema(twin[1].table_info)
            /\ b.prompt # NoPrompt =>
                 SchemaInPrompt(b.prompt) = set_database_schema(twin[2].table_info)

C17_Witness ==
    /\ twin # <<>>
    /\ nl_query = "What are the total sales by category?"
    /\ twin[1].table_info = <<>>
    /\ twin[2].table_info = <<SalesTable>>
    /\ Answer(twin[1].run) = <<SqlSalesByCategory, "Pattern matching">>
    /\ Answer(twin[2].run) = <<SqlSalesByCategory, "Pattern matching">>

\* ------------------------------------------------------------------------
\* The callers of the resolver (Spec for the dashboard, SpecServer)
\* ------------------------------------------------------------------------

\* C16: natural_language_to_sql is never called with a blank question: the
\* dashboard's Execute Query handler and the server's /process handler both
\* reject a question that is empty or whitespace before they call it.
C16_BlankNeverResolved ==
    (calls # <<>> /\ nl_query # None) => Strip(nl_query) # ""

\* ------------------------------------------------------------------------
\* The shared QueryProcessor (SpecSessions)
\* ------------------------------------------------------------------------

\* C18: the prompt of a request's remote call embeds the schema context that
\* the same request set with set_database_schema; no other request's
\* set_database_schema comes between the two.
C18_PromptEmbedsOwnSchema ==
    \A s \in Sessions :
        (sessions[s].pc = "resolved" /\ sessions[s].prompt # NoPrompt) =>
            sessions[s].prompt = system_prompt(sessions[s].own_context)

\* ------------------------------------------------------------------------
\* The remote call in flight (SpecRemote)
\* ------------------------------------------------------------------------

\* C21: every remote completion call is issued with a request timeout among
\* its arguments, so that a resolution waiting for it cannot wait for ever.
C21_RemoteCallCarriesTimeout ==
    pending # NoPending =>
        \E k \in DOMAIN pending.kwargs : k \in {"request_timeout", "timeout"}

\* ------------------------------------------------------------------------
\* The server's operations (SpecServer)
\* ------------------------------------------------------------------------

\* the task each operation expects
ExpectedTask ==
    [process |-> "nl_to_sql", validate |-> "validate_sql", suggest |-> "suggest_queries"]

\* C22: /process answers every request it accepts with a record that holds
\* the (sql, method) the resolver returned for the request's question, the
\* verdict of validate_sql on that sql and the text of get_query_explanation
\* on that sql; the sql is the resolver's also when the verdict is false.
C22_ProcessAnswersWithResolverResult ==
    (http # NoRequest /\ http.endpoint = "process" /\ http.status = 200) =>
        \E r \in {natural_language_to_sql(http.request.query, openai_api_key, remote)} :
            /\ nl_query = http.request.query
            /\ result = [sql |-> r.sql, method |-> r.method]
            /\ http.body.sql = r.sql
            /\ http.body.method = r.method
            /\ http.body.valid = validate_sql(r.sql)
            /\ http.body.explanation = get_query_explanation(r.sql)
            /\ http.body.original_query = http.request.query

C22_Witness ==
    /\ http # NoRequest
    /\ http.endpoint = "process"
    /\ http.status = 200
    /\ http.request.query = "hello"
    /\ http.body.sql = "Sorry, I cannot answer that"
    /\ http.body.method = "OpenAI GPT"
    /\ http.body.valid = FALSE

\* C24: a request whose task is not the one its operation expects is
\* answered with status 400 and the detail "Invalid task type".
C24_WrongTaskGets400 ==
    (http # NoRequest /\ http.request.task # ExpectedTask[http.endpoint]) =>
        /\ http.status = 400
        /\ http.detail = "Invalid task type"

\* ------------------------------------------------------------------------
\* PostgresDB
\* ------------------------------------------------------------------------

\* the statement has something to run once stripped
HasStatement(query) == query # None /\ Strip(query) # ""

\* C29: execute_query never raises: with no connection it connects first
\* and returns None when that fails; it returns None for a blank statement
\* and for any execution error; it returns a result table exactly when a
\* statement ran successfully on an open connection.
C29_ExecuteQueryNeverRaises ==
    db_call.op = "execute_query" =>
        /\ ~db_call.raised
        /\ db_call.returned \in {"None", "DataFrame", "EmptyDataFrame"}
        /\ (db_call.before = "none" /\ db_call.server.connect = "ok"
               => connection = "open")
        /\ (db_call.before = "none" /\ db_call.server.connect # "ok"
               => db_call.returned = "None" /\ db_call.used = "unused")
        /\ (~HasStatement(db_call.query) => db_call.returned = "None")
        /\ (db_call.server.run = "error" => db_call.returned = "None")
        /\ (db_call.returned # "None"
               <=> /\ HasStatement(db_call.query)
                   /\ db_call.used = "open"
                   /\ db_call.server.run # "error")
        /\ (db_call.returned = "DataFrame" => db_call.server.run = "rows")

\* a statement that failed on the server after execute_query connected
C29_Witness ==
    /\ db_call.op = "execute_query"
    /\ db_call.before = "none"
    /\ connection = "open"
    /\ db_call.used = "open"
    /\ db_call.server.run = "error"
    /\ db_call.returned = "None"

\* C30: no operation that needs the database runs on a connection that
\* disconnect has closed: an operation that finds the connection closed
\* connects again before it uses it.
C30_NeverUsesClosedConnection ==
    db_call.op \in {"execute_query", "test_connection"} =>
        /\ db_call.used # "closed"
        /\ (db_call.before = "closed" /\ db_call.server.connect = "ok"
               => connection = "open")


\* ------------------------------------------------------------------------
\* Query history
\* ------------------------------------------------------------------------

\* s is an initial part of t
IsPrefix(s, t) == Len(s) <= Len(t) /\ SubSeq(t, 1, Len(s)) = s

\* the sidebar lists the given history as the code draws it: at most
\* HistoryShown entries, the last ones, newest first
ShowsNewestOf(shown, history) ==
    /\ Len(shown) = Min({Len(history), HistoryShown})
    /\ \A i \in 1..Len(shown) : shown[i] = history[Len(history) + 1 - i]

\* C23 as stated: an entry once appended is never modified or removed and
\* later entries are only added after it; the sidebar shows at most the five
\* most recent entries, newest first.
C23_HistoryOnlyGrows ==
    [][/\ IsPrefix(query_history, query_history')
       /\ (sidebar' # sidebar =>
              \/ ShowsNewestOf(sidebar', query_history)
              \/ ShowsNewestOf(sidebar', query_history'))]_vars

\* C23, amended: every step either leaves the earlier entries in place and
\* adds at most one entry after them, or empties the whole history (the Clear
\* History button); a sidebar that is redrawn lists at most the five most
\* recent entries of the history it was drawn from (the history before the
\* step, or the emptied one), newest first.
C23_HistoryGrowsOrIsCleared ==
    [][/\ \/ /\ IsPrefix(query_history, query_history')
             /\ Len(query_history') <= Len(query_history) + 1
          \/ query_history' = <<>>
       /\ (sidebar' # sidebar =>
              \/ ShowsNewestOf(sidebar', query_history)
              \/ query_history' = <<>> /\ sidebar' = <<>>)]_vars

\* six questions were answered and the sidebar was drawn again: it lists the
\* last five
C23_Witness ==
    /\ Len(query_history) = MaxLongHistory
    /\ Len(sidebar) = HistoryShown
    /\ sidebar[1] = query_history[MaxLongHistory]
    /\ sidebar[HistoryShown] = query_history[2]
    /\ query_history[1] # query_history[2]


\* C27: a question is appended to the history exactly when its statement was
\* executed and returned a table with rows: then the entry (time, question,
\* statement) is added at the end and the table becomes the current data; an
\* execution that fails or returns no rows leaves the history and the current
\* data as they were; a blank question leaves everything but the redrawn
\* sidebar as it was.
C27_AppendedIffRowsReturned ==
    [][/\ HistoryExecuteQuery =>
             /\ db_call'.op = "execute_query"
             /\ db_call'.query = db_query'
             /\ IF db_call'.returned = "DataFrame"
                THEN /\ query_history' =
                            Append(query_history, <<clock, nl_query', db_query'>>)
                     /\ current_data' = [rows_of |-> db_query']
                ELSE UNCHANGED <<query_history, current_data>>
       /\ ExecuteBlankQuery =>
             UNCHANGED <<openai_api_key, schema_context, nl_query, remote,
                         result, calls, db_query, query_history, current_data,
                         clock, connection, db_call, db_connected>>
       /\ Len(query_history') > Len(query_history) =>
             /\ db_call'.op = "execute_query"
             /\ db_call'.returned = "DataFrame"]_vars

\* a question was answered with rows, then another statement returned no rows:
\* the history and the current data are those of the first
C27_Witness ==
    /\ Len(query_history) = 2
    /\ db_call.op = "execute_query"
    /\ db_call.returned = "EmptyDataFrame"
    /\ db_query # query_history[1][3]
    /\ nl_query # query_history[1][2]
    /\ current_data = [rows_of |-> query_history[1][3]]


\* ------------------------------------------------------------------------
\* The resolver's literal statements
\* ------------------------------------------------------------------------

\* C25: every statement the resolver can return without a remote call (the
\* entries of both pattern tables, the default and the error placeholder) is
\* returned unchanged by clean_sql_query and makes validate_sql return true.
C25_FixedSqlIsCleanAndValid ==
    raw \in FixedSqls =>
        /\ cleaned = [ok |-> TRUE, sql |-> raw]
        /\ (valid # <<>> => valid = <<TRUE>>)
        /\ (recleaned # NotCleaned => recleaned = cleaned)

\* the longest tier-2 statement went through both functions
C25_Witness ==
    /\ raw = SqlBestProducts
    /\ cleaned = [ok |-> TRUE, sql |-> SqlBestProducts]
    /\ valid = <<TRUE>>

\* ------------------------------------------------------------------------
\* The visualizer
\* ------------------------------------------------------------------------

\* an object column whose name contains "date" and whose values are dates
IsDateText(col) == col.dtype = "object" /\ col.date_name /\ col.parses

NumericColumns(df) ==
    Cardinality({i \in 1..Len(df.columns) : df.columns[i].dtype = "number"})

CategoricalColumns(df) ==
    Cardinality({i \in 1..Len(df.columns) :
                    /\ df.columns[i].dtype \in {"object", "category"}
                    /\ ~IsDateText(df.columns[i])})

TemporalColumns(df) ==
    Cardinality({i \in 1..Len(df.columns) :
                    \/ df.columns[i].dtype = "datetime64"
                    \/ IsDateText(df.columns[i])})

\* C26: auto_visualize returns no figure for a missing or empty result;
\* otherwise it picks the table view when deciding raised an exception, and
\* else the first of: metric card (one row, one numeric column), bar chart (a
\* categorical and a numeric column), line chart (a temporal and a numeric
\* column), scatter plot (two numeric columns), table view.
C26_FirstRuleDecidesEncoding ==
    figure.drawn =>
        LET df == figure.df
            n  == NumericColumns(df)
            c  == CategoricalColumns(df)
            t  == TemporalColumns(df)
        IN  IF df.missing \/ df.rows = 0 \/ Len(df.columns) = 0
            THEN figure.returned = None /\ figure.picked = None
            ELSE /\ figure.returned \in {figure.picked, None}
                 /\ (figure.renders => figure.returned = figure.picked)
                 /\ figure.picked =
                       IF figure.raised THEN "table_view"
                       ELSE IF df.rows = 1 /\ n = 1 THEN "metric_card"
                       ELSE IF c >= 1 /\ n >= 1 THEN "bar_chart"
                       ELSE IF t >= 1 /\ n >= 1 THEN "line_chart"
                       ELSE IF n >= 2 THEN "scatter_plot"
                       ELSE "table_view"
                 /\ (df.duplicate => figure.raised)
                 /\ (figure.raised =>
                       \/ df.duplicate
                       \/ /\ figure.query = None
                          /\ c >= 1 /\ n >= 1 /\ ~(df.rows = 1 /\ n = 1))

\* a text column of dates next to a numeric column, two rows: the text column
\* counts as temporal and not as categorical, and the line chart is picked
C26_Witness ==
    /\ figure.drawn
    /\ figure.df.rows = 2
    /\ figure.df.columns =
          <<[dtype |-> "object", date_name |-> TRUE, parses |-> TRUE],
            [dtype |-> "number", date_name |-> FALSE, parses |-> FALSE]>>
    /\ ~figure.raised
    /\ figure.returned = "line_chart"


\* ------------------------------------------------------------------------
\* The MCP client
\* ------------------------------------------------------------------------

\* the request was answered with status 200 and a body that decodes
RequestSucceeded(response) ==
    /\ response.kind = "response"
    /\ response.status = 200
    /\ response.body # NotJson

\* C28: no MCPClient method raises. send_request returns the decoded body for
\* a status-200 response and None for any other status, for a timeout (the
\* request carries a total timeout of 30 seconds) and for any exception; when
\* the request did not succeed process_nl_query and sync_process_nl_query
\* return None, validate_sql returns False and get_query_suggestions returns
\* the empty list.
C28_ClientNeverRaises ==
    client.method # None =>
        /\ client.raised = None
        /\ client.timeout = 30
        /\ (client.method = "send_request" =>
               client.returned = IF RequestSucceeded(client.response)
                                 THEN client.response.body ELSE PyNone)
        /\ (~RequestSucceeded(client.response) =>
               client.returned =
                  CASE client.method = "validate_sql" -> PyBool(FALSE)
                    [] client.method = "get_query_suggestions" -> PyList(<<>>)
                    [] OTHER -> PyNone)
        /\ (client.method = "sync_process_nl_query" =>
               client.returned \in {client.response.body, PyNone})
        /\ (client.method = "process_nl_query"
              /\ RequestSucceeded(client.response) =>
               client.returned = client.response.body)

\* the server answered 500 with a body that says valid: validate_sql says False
C28_Witness ==
    /\ client.method = "validate_sql"
    /\ client.response.kind = "response"
    /\ client.response.status = 500
    /\ client.response.body = PyDict(PyBool(TRUE), Absent, Absent)
    /\ client.returned = PyBool(FALSE)
    /\ client.raised = None


====
